---- MODULE Spec2Model ----
(***************************************************************************)
(* A model of the flowmetry metrics pipeline: the collector's stream       *)
(* client with its overflow buffer, and the aggregator (stream consumer    *)
(* group, worker loop, time-series store, process lifespan).               *)
(***************************************************************************)
EXTENDS Integers, Sequences, FiniteSets, TLC

\* ------------------------------------------------------------------------
\* Bounds of the model
\* ------------------------------------------------------------------------
\* number of send_message calls the collector model makes
MaxSends == 4
\* capacity of the collector's overflow buffer (RedisStreamClient.buffer_size)
buffer_size == 3

\* ------------------------------------------------------------------------
\* State
\* ------------------------------------------------------------------------
VARIABLES
    xstream,      \* collector: entries of the stream, in XADD order (payload = call number)
    buffer,       \* collector: RedisStreamClient._buffer
    lock,         \* collector: holder of _buffer_lock (0 = free)
    waiters,      \* collector: FIFO of callers waiting for _buffer_lock
    spc,          \* collector: per caller, position inside send_message
    sdata,        \* collector: per caller, the payload (`data`) of its call
    sent,         \* collector: number of send_message calls started so far
    call,         \* collector: per caller, facts about the call in progress
    last,         \* collector: facts about the call that finished last
    hist          \* collector: what has happened so far (overflow, other errors,
                  \* the order of first lock acquisitions, the dropped payloads)

colVars == <<xstream, buffer, lock, waiters, spc, sdata, sent, call, last, hist>>

VARIABLES
    metrics_info,        \* store: descriptor rows, in insertion order
    metrics_values,      \* store: counter/gauge sample rows, in insertion order
    metrics_histograms,  \* store: histogram sample rows, in insertion order
    upc,                 \* upsert callers: position in _get_or_create_metric_id
    upoint,              \* upsert callers: the point of each call
    uret                 \* upsert callers: the id each call returned (0 = none yet)

dbVars == <<metrics_info, metrics_values, metrics_histograms>>
upVars == <<upc, upoint, uret>>

VARIABLES
    stream,          \* durable log: the `data` payload of each entry, by entry id
    last_delivered,  \* consumer group: last entry id delivered by XREADGROUP '>'
    pel,             \* consumer group: pending entries, id -> [consumer, idle]
    wpc,             \* worker: position in AggregationWorker.start
    consumer,        \* worker: the consumer name of the running process
    path,            \* worker: the generator being iterated ("read" or "claim")
    batch,           \* worker: entry ids fetched and not yet iterated
    cur,             \* worker: the entry being handled (0 = none)
    processed_new,   \* worker: processed_new of the current iteration
    running,         \* worker: AggregationWorker._running
    redis_open,      \* aggregator stream client started and not stopped
    pool_open,       \* TimescaleDB._pool is not None
    arrivals,        \* environment: entries still to be appended (-1: no limit)
    faults,          \* environment: failures (of a store or stream operation, or
                     \* kills of the process) that may still happen
    menu,            \* environment: the payloads producers append
    failed_ins,      \* history: entries whose latest insert_metric raised
    acks,            \* history: the acks the worker issued after an insert
    orphans,         \* history: entries that were pending when the process was killed
    mark,            \* history: the tracked entry (0: none yet, -1: off)
    persisted        \* history: insert_metric succeeded for the tracked entry

logVars == <<stream, last_delivered, pel>>
workerVars == <<wpc, consumer, path, batch, cur, processed_new, running>>
connVars == <<redis_open, pool_open>>
envVars == <<arrivals, faults, menu>>
histVars == <<failed_ins, acks, orphans, mark, persisted>>

VARIABLES
    lpc,             \* lifespan(): where the process is between start-up and exit
    closing          \* what timescale_db.close() and redis_stream_client.stop() did

lifeVars == <<lpc, closing>>
aggVars == <<logVars, workerVars, connVars, envVars, histVars, lifeVars>>

VARIABLES
    request,         \* ingest: the OTLPMetricsRequest of the request being handled
    points,          \* ingest: the list convert_otlp_to_internal returned
    rpc,             \* ingest: where the handler of POST /v1/metrics is
    rbase,           \* ingest: send_message calls made before this request
    ridx,            \* ingest: points whose send_message call has returned
    rresults,        \* ingest: how each of these calls ended
    response         \* ingest: the HTTP answer

convVars == <<request, points, rpc, rbase, ridx, rresults, response>>

\* The query API (src/api): the call or request at hand, its result, the
\* position of the handler, and the number of store queries it made
VARIABLES qreq, qresp, qpc, qcalls

apiVars == <<qreq, qresp, qpc, qcalls>>

\* A consumer group with two aggregator instances in pending recovery
\* (claim_pending_messages): the group's pending list, where each instance is
\* in its call, the ids XPENDING listed for it, the entries its XCLAIM
\* returned, and (history) the instances whose XCLAIM took an entry since the
\* entry last became idle for REDIS_PENDING_IDLE_MS
VARIABLES gpel, gpc, gids, gclaimed, gtakers

grpVars == <<gpel, gpc, gids, gclaimed, gtakers>>


vars == <<colVars, dbVars, upVars, aggVars, convVars, apiVars, grpVars>>

NoQuery == [kind |-> "none"]

IdleApi == qreq = NoQuery /\ qresp = NoQuery /\ qpc = "idle" /\ qcalls = 0

IdleGrp ==
    /\ gpel = <<>> /\ gpc = <<>> /\ gids = <<>> /\ gclaimed = <<>>
    /\ gtakers = <<>>

\* ------------------------------------------------------------------------
\* Collector: RedisStreamClient (src/collector/redis_stream_client.py)
\* ------------------------------------------------------------------------
\* The callers of send_message. One caller awaits each call before the next.
SeqSenders == {1}

\* What one XADD can do: append; raise ConnectionError/TimeoutError without
\* appending; raise TimeoutError although the server appended the entry;
\* raise another error (not caught by send_message).
XaddOutcomes == {"ok", "conn_error", "timeout_applied", "other_error"}

NoCall == [buf0 |-> <<>>, len0 |-> 0, clean |-> TRUE]
NoLast == [msg |-> 0, result |-> "none", error |-> "none", failed |-> 0,
           bufBefore |-> <<>>, bufAfter |-> <<>>, strAfter |-> <<>>,
           buf0 |-> <<>>, len0 |-> 0, clean |-> TRUE]

NoHist == [reached |-> FALSE, other |-> FALSE, order |-> <<>>, dropped |-> {}]

InitCol ==
    /\ xstream = <<>>
    /\ buffer = <<>>
    /\ lock = 0
    /\ waiters = <<>>
    /\ spc = [s \in SeqSenders |-> "idle"]
    /\ sdata = [s \in SeqSenders |-> 0]
    /\ sent = 0
    /\ call = [s \in SeqSenders |-> NoCall]
    /\ last = NoLast
    /\ hist = NoHist

\* Whether position i of sequence q holds x somewhere
InSeq(x, q) == \E i \in 1..Len(q) : q[i] = x

IsPrefix(p, q) == Len(p) <= Len(q) /\ SubSeq(q, 1, Len(p)) = p

\* asyncio.Lock.release: the first waiter, if any, is granted the lock.
LockAfterRelease == IF waiters = <<>> THEN 0 ELSE Head(waiters)
WaitersAfterRelease == IF waiters = <<>> THEN <<>> ELSE Tail(waiters)
PcAfterGrant(pcs) ==
    IF waiters = <<>> THEN pcs
    ELSE [pcs EXCEPT ![Head(waiters)] =
            IF pcs[Head(waiters)] = "wait_section" THEN "section" ELSE "handler"]

\* history: the waiter that is granted the lock for its locked section has
\* now acquired it for the first time
HistAfterGrant(h) ==
    IF waiters # <<>> /\ spc[Head(waiters)] = "wait_section"
    THEN [h EXCEPT !.order = Append(@, sdata[Head(waiters)])]
    ELSE h

\* The entry the locked section sends next (lines 104-108): the head of the
\* buffer while the buffer is not empty, then the call's own data.
NextTarget(b, d) == IF b # <<>> THEN Head(b) ELSE d

\* (variant: the buffer is cleared after the first drained entry)
BufferAfterPopClear(b) == <<>>

\* (variant: the drained entry is left in the buffer)
BufferAfterPopKeep(b) == b

\* self._buffer.pop(0) after a successful send of the head (line 107)
BufferAfterPop(b) == Tail(b)

\* (variant: a failed entry is put at the head of the buffer)
BufferAfterHandlerPrepend(b, d) == IF Len(b) < buffer_size THEN <<d>> \o b ELSE b

\* (variant: no capacity check before the append)
BufferAfterHandlerUnbounded(b, d) == Append(b, d)

\* (variant: a full buffer evicts its oldest entry to take the new one)
BufferAfterHandlerEvict(b, d) ==
    IF Len(b) < buffer_size THEN Append(b, d) ELSE Append(Tail(b), d)

\* The except-branch body (lines 123-134): append the call's own data if
\* capacity remains, otherwise drop it.
BufferAfterHandler(b, d) == IF Len(b) < buffer_size THEN Append(b, d) ELSE b

\* history: the except branch has buffered or dropped d
HistAfterHandler(h, b, d) ==
    [h EXCEPT !.reached = @ \/ Len(BufferAfterHandler(b, d)) >= buffer_size,
              !.dropped = IF Len(b) < buffer_size THEN @ ELSE @ \cup {d}]

\* send_message up to the first suspension: build the payload and enter
\* `async with self._buffer_lock` (lines 86-103).
SendMessageCall(s) ==
    /\ spc[s] = "idle"
    /\ sent < MaxSends
    /\ sent' = sent + 1
    /\ sdata' = [sdata EXCEPT ![s] = sent + 1]
    /\ IF lock = 0 /\ waiters = <<>>
       THEN /\ lock' = s
            /\ spc' = [spc EXCEPT ![s] = "section"]
            /\ waiters' = waiters
            /\ call' = [call EXCEPT ![s] =
                          [buf0 |-> buffer, len0 |-> Len(xstream), clean |-> TRUE]]
            /\ hist' = [hist EXCEPT !.order = Append(@, sent + 1)]
       ELSE /\ lock' = lock
            /\ spc' = [spc EXCEPT ![s] = "wait_section"]
            /\ waiters' = Append(waiters, s)
            /\ call' = call
            /\ hist' = hist
    /\ UNCHANGED <<xstream, buffer, last>>
    /\ UNCHANGED <<dbVars, upVars, aggVars, convVars, apiVars, grpVars>>

\* One `await self._send_to_redis(...)` inside the locked section (lines
\* 104-108) with its outcome, and everything send_message does until its next
\* suspension: pop the drained entry; or finish the call; or, on an error,
\* leave the section and run the except branch (lines 113-134).
SendToRedis(s, outcome) ==
    /\ spc[s] = "section"
    /\ lock = s
    /\ UNCHANGED <<dbVars, upVars, aggVars, convVars, apiVars, grpVars>>
    /\ LET draining == buffer # <<>>
           target == NextTarget(buffer, sdata[s])
           appended == outcome \in {"ok", "timeout_applied"}
           stream1 == IF appended THEN Append(xstream, target) ELSE xstream
       IN
       /\ xstream' = stream1
       /\ CASE outcome = "ok" /\ draining ->
                 \* self._buffer.pop(0); the while loop goes on
                 /\ buffer' = BufferAfterPop(buffer)
                 /\ UNCHANGED <<lock, waiters, spc, sdata, sent, call, last, hist>>
            [] outcome = "ok" /\ ~draining ->
                 \* the new entry is in the stream: release, return
                 /\ buffer' = buffer
                 /\ lock' = LockAfterRelease
                 /\ waiters' = WaitersAfterRelease
                 /\ spc' = PcAfterGrant([spc EXCEPT ![s] = "idle"])
                 /\ last' = [msg |-> sdata[s], result |-> "sent", error |-> "none",
                             failed |-> 0,
                             bufBefore |-> buffer, bufAfter |-> buffer,
                             strAfter |-> stream1,
                             buf0 |-> call[s].buf0, len0 |-> call[s].len0,
                             clean |-> call[s].clean]
                 /\ call' = [call EXCEPT ![s] = NoCall]
                 /\ hist' = HistAfterGrant(hist)
                 /\ UNCHANGED <<sdata, sent>>
            [] outcome = "other_error" ->
                 \* not a ConnectionError/TimeoutError: the lock is released and
                 \* the exception leaves send_message
                 /\ buffer' = buffer
                 /\ lock' = LockAfterRelease
                 /\ waiters' = WaitersAfterRelease
                 /\ spc' = PcAfterGrant([spc EXCEPT ![s] = "idle"])
                 /\ last' = [msg |-> sdata[s], result |-> "raised", error |-> "other",
                             failed |-> target,
                             bufBefore |-> buffer, bufAfter |-> buffer,
                             strAfter |-> stream1,
                             buf0 |-> call[s].buf0, len0 |-> call[s].len0,
                             clean |-> FALSE]
                 /\ call' = [call EXCEPT ![s] = NoCall]
                 /\ hist' = HistAfterGrant([hist EXCEPT !.other = TRUE])
                 /\ UNCHANGED <<sdata, sent>>
            [] OTHER ->
                 \* ConnectionError / TimeoutError: the section is left (lock
                 \* released), then the except branch takes the lock again
                 IF waiters = <<>>
                 THEN /\ buffer' = BufferAfterHandler(buffer, sdata[s])
                      /\ lock' = 0
                      /\ waiters' = waiters
                      /\ spc' = [spc EXCEPT ![s] = "idle"]
                      /\ last' = [msg |-> sdata[s],
                                  result |-> IF Len(buffer) < buffer_size
                                             THEN "buffered" ELSE "dropped",
                                  error |-> "conn",
                                  failed |-> target,
                                  bufBefore |-> buffer,
                                  bufAfter |-> BufferAfterHandler(buffer, sdata[s]),
                                  strAfter |-> stream1,
                                  buf0 |-> call[s].buf0, len0 |-> call[s].len0,
                                  clean |-> FALSE]
                      /\ call' = [call EXCEPT ![s] = NoCall]
                      /\ hist' = HistAfterHandler(hist, buffer, sdata[s])
                      /\ UNCHANGED <<sdata, sent>>
                 ELSE /\ buffer' = buffer
                      /\ lock' = Head(waiters)
                      /\ waiters' = Append(Tail(waiters), s)
                      /\ spc' = PcAfterGrant([spc EXCEPT ![s] = "wait_handler"])
                      /\ call' = [call EXCEPT ![s].clean = FALSE]
                      /\ last' = last
                      /\ hist' = HistAfterGrant(hist)
                      /\ UNCHANGED <<sdata, sent>>

\* The except branch after its `async with self._buffer_lock` was granted
\* (lines 123-134): buffer or drop the call's own data, release, return
Handler(s) ==
    /\ spc[s] = "handler"
    /\ lock = s
    /\ buffer' = BufferAfterHandler(buffer, sdata[s])
    /\ lock' = LockAfterRelease
    /\ waiters' = WaitersAfterRelease
    /\ spc' = PcAfterGrant([spc EXCEPT ![s] = "idle"])
    /\ last' = [msg |-> sdata[s],
                result |-> IF Len(buffer) < buffer_size
                           THEN "buffered" ELSE "dropped",
                error |-> "conn", failed |-> 0,
                bufBefore |-> buffer,
                bufAfter |-> BufferAfterHandler(buffer, sdata[s]),
                strAfter |-> xstream,
                buf0 |-> call[s].buf0, len0 |-> call[s].len0,
                clean |-> FALSE]
    /\ call' = [call EXCEPT ![s] = NoCall]
    /\ hist' = HistAfterGrant(HistAfterHandler(hist, buffer, sdata[s]))
    /\ UNCHANGED <<xstream, sdata, sent>>
    /\ UNCHANGED <<dbVars, upVars, aggVars, convVars, apiVars, grpVars>>

\* ------------------------------------------------------------------------
\* Metric points (src/aggregator/schemas.py) and the time-series store
\* (src/aggregator/db.py)
\* ------------------------------------------------------------------------
\* number of concurrent _get_or_create_metric_id calls
NumCallers == 3

\* An optional field: None, or Some(x)
None == {}
Some(x) == {x}
Get(o) == CHOOSE x \in o : TRUE

\* MetricPoint records. All share name and attributes, so that their descriptor
\* identities differ only by explicit_bounds.
Point(type, value, hfield, bounds) ==
    [name |-> "a", description |-> "d", unit |-> "u", type |-> type,
     timestamp_nano |-> 1, attributes |-> "k=v",
     value |-> value, sum |-> hfield, count |-> hfield,
     bucket_counts |-> hfield,
     explicit_bounds |-> bounds]

PCounter == Point("counter", Some(1), None, None)
PGauge == Point("gauge", Some(1), None, None)
PHistogram == Point("histogram", None, Some(1), Some(<<1>>))
\* a histogram without explicit_bounds
PHistogramNoBounds == Point("histogram", None, Some(1), None)
\* a counter that carries explicit_bounds
PCounterBounds == Point("counter", Some(1), None, Some(<<1>>))
\* a counter without value (fails insert_metric's check)
PCounterNoValue == Point("counter", None, None, None)

\* explicit_bounds as _get_or_create_metric_id passes it (lines 94-96)
ExplicitBounds(point) ==
    IF point.type = "histogram" THEN point.explicit_bounds ELSE None

\* COALESCE(explicit_bounds, '{}'::DOUBLE PRECISION[])
Coalesce(bounds) == IF bounds = None THEN <<>> ELSE Get(bounds)

\* The conflict target of the upsert, for a point and for a stored row
PointIdentity(point) ==
    <<point.name, point.attributes, Coalesce(ExplicitBounds(point))>>
RowIdentity(row) == <<row.name, row.attributes, Coalesce(row.explicit_bounds)>>

\* the rows the SELECT of lines 118-128 matches
MatchingRows(info, point) ==
    {i \in 1..Len(info) : RowIdentity(info[i]) = PointIdentity(point)}

\* (variant: the INSERT never sees a conflict)
HasConflictNever(info, point) == FALSE

\* whether INSERT ... ON CONFLICT finds a row with the same identity
HasConflict(info, point) == MatchingRows(info, point) # {}

\* the row the INSERT of lines 97-115 writes
NewInfoRow(info, point) ==
    [id |-> Len(info) + 1, name |-> point.name, description |-> point.description,
     unit |-> point.unit, type |-> point.type, attributes |-> point.attributes,
     explicit_bounds |-> ExplicitBounds(point)]

\* (variant: ON CONFLICT ... DO UPDATE SET type = EXCLUDED.type RETURNING id)
InsertInfoDoUpdate(info, point) ==
    IF HasConflict(info, point)
    THEN [info |-> [i \in 1..Len(info) |->
                      IF i \in MatchingRows(info, point)
                      THEN [info[i] EXCEPT !.type = point.type]
                      ELSE info[i]],
          id |-> info[CHOOSE i \in MatchingRows(info, point) : TRUE].id]
    ELSE [info |-> Append(info, NewInfoRow(info, point)), id |-> Len(info) + 1]

\* INSERT ... ON CONFLICT DO NOTHING RETURNING id (one atomic statement):
\* the table afterwards, and the returned id (0 when no row is returned)
InsertInfo(info, point) ==
    IF HasConflict(info, point)
    THEN [info |-> info, id |-> 0]
    ELSE [info |-> Append(info, NewInfoRow(info, point)), id |-> Len(info) + 1]

\* SELECT id FROM metrics_info WHERE ... (lines 118-128): the id of a
\* matching row, 0 when there is none
SelectInfo(info, point) ==
    IF MatchingRows(info, point) = {} THEN 0
    ELSE info[CHOOSE i \in MatchingRows(info, point) : TRUE].id

UpsertCallers == 1..NumCallers
UpsertPoints ==
    {PCounter, PGauge, PHistogram, PHistogramNoBounds, PCounterBounds}

InitDb ==
    /\ metrics_info = <<>>
    /\ metrics_values = <<>>
    /\ metrics_histograms = <<>>

IdleUpsert ==
    /\ upc = <<>>
    /\ upoint = <<>>
    /\ uret = <<>>

InitUpsert ==
    /\ InitDb
    /\ upc = [c \in UpsertCallers |-> "insert"]
    /\ upoint \in [UpsertCallers -> UpsertPoints]
    /\ uret = [c \in UpsertCallers |-> 0]

\* _get_or_create_metric_id, first statement (lines 97-117)
UpsertInsert(c) ==
    /\ upc[c] = "insert"
    /\ LET r == InsertInfo(metrics_info, upoint[c]) IN
       /\ metrics_info' = r.info
       /\ uret' = [uret EXCEPT ![c] = r.id]
       /\ upc' = [upc EXCEPT ![c] = IF r.id # 0 THEN "done" ELSE "select"]
    /\ UNCHANGED <<upoint, metrics_values, metrics_histograms>>
    /\ UNCHANGED <<colVars, aggVars, convVars, apiVars, grpVars>>

\* _get_or_create_metric_id, second statement (lines 118-131)
UpsertSelect(c) ==
    /\ upc[c] = "select"
    /\ LET id == SelectInfo(metrics_info, upoint[c]) IN
       /\ uret' = [uret EXCEPT ![c] = id]
       /\ upc' = [upc EXCEPT ![c] = IF id # 0 THEN "done" ELSE "raised"]
    /\ UNCHANGED <<upoint, metrics_info, metrics_values, metrics_histograms>>
    /\ UNCHANGED <<colVars, aggVars, convVars, apiVars, grpVars>>

\* ------------------------------------------------------------------------
\* OTLP decoder (src/collector/converters.py, src/collector/otlp/schemas.py)
\* ------------------------------------------------------------------------
\* metrics in one scope of a request
MaxMetrics == 1

\* AnyValue and KeyValue
StringValue(x) == [string_value |-> Some(x), bool_value |-> None]
BoolValue(b) == [string_value |-> None, bool_value |-> Some(b)]
NoValue == [string_value |-> None, bool_value |-> None]
KeyValue(k, v) == [key |-> k, value |-> v]

\* _parse_any_value (lines 11-22), for string and bool values
ParseAnyValue(kv) ==
    IF kv.value.string_value # None THEN Get(kv.value.string_value)
    ELSE IF kv.value.bool_value # None
    THEN (IF Get(kv.value.bool_value) THEN "true" ELSE "false")
    ELSE ""

\* the attribute keys of the modelled requests
AttributeKeys == {"k", "svc.name", "telemetry.sdk.name"}

\* _normalize_attribute_key (lines 25-26): key.replace('.', '_')
NormalizeAttributeKey(key) ==
    CASE key = "svc.name" -> "svc_name"
      [] key = "telemetry.sdk.name" -> "telemetry_sdk_name"
      [] OTHER -> key

\* _should_keep_attribute (lines 29-36): no system prefix
ShouldKeepAttribute(key) == key # "telemetry.sdk.name"

EmptyDict == <<>>

\* dict.update: the keys of e are set to e's values
DictUpdate(d, e) == e @@ d

\* _attributes_to_dict (lines 39-51)
RECURSIVE AttributesToDict(_)
AttributesToDict(attributes) ==
    IF attributes = <<>> THEN EmptyDict
    ELSE LET result == AttributesToDict(SubSeq(attributes, 1, Len(attributes) - 1))
             kv == attributes[Len(attributes)]
         IN IF ~ShouldKeepAttribute(kv.key) THEN result
            ELSE IF ParseAnyValue(kv) = "" THEN result
            ELSE DictUpdate(result, NormalizeAttributeKey(kv.key) :> ParseAnyValue(kv))

\* NumberDataPoint and HistogramDataPoint; time_unix_nano tells the data
\* points of a metric apart
NumberDataPoint(attrs, t) ==
    [attributes |-> attrs, time_unix_nano |-> t, as_int |-> Some(1)]
HistogramDataPoint(attrs, t) ==
    [attributes |-> attrs, time_unix_nano |-> t, count |-> 1, sum |-> Some(1),
     bucket_counts |-> <<1, 0>>, explicit_bounds |-> <<1>>]
Metric(sum, gauge, histogram) ==
    [name |-> "a", description |-> "d", unit |-> "u",
     sum |-> sum, gauge |-> gauge, histogram |-> histogram]

\* _convert_number_data_point (lines 54-73)
ConvertNumberDataPoint(dp, metric, metric_type) ==
    [name |-> metric.name, description |-> metric.description, unit |-> metric.unit,
     type |-> metric_type, timestamp_nano |-> dp.time_unix_nano,
     attributes |-> AttributesToDict(dp.attributes),
     value |-> IF dp.as_int # None THEN dp.as_int ELSE Some(0),
     sum |-> None, count |-> None, bucket_counts |-> None,
     explicit_bounds |-> None]

\* _convert_histogram_data_point (lines 76-90)
ConvertHistogramDataPoint(dp, metric) ==
    [name |-> metric.name, description |-> metric.description, unit |-> metric.unit,
     type |-> "histogram", timestamp_nano |-> dp.time_unix_nano,
     attributes |-> AttributesToDict(dp.attributes),
     value |-> None,
     sum |-> dp.sum, count |-> Some(dp.count),
     bucket_counts |-> Some(dp.bucket_counts),
     explicit_bounds |-> Some(dp.explicit_bounds)]

\* (variant: the data-point attributes are laid over the resource attributes)
WithResourceAttrsUnder(point, resource_attrs) ==
    [point EXCEPT !.attributes = DictUpdate(resource_attrs, @)]

\* point.attributes.update(resource_attrs) (lines 106, 113, 118)
WithResourceAttrs(point, resource_attrs) ==
    [point EXCEPT !.attributes = DictUpdate(@, resource_attrs)]

\* (variant: every payload branch that is present contributes)
MetricPointsAllBranches(metric, resource_attrs) ==
    (IF metric.sum # None
     THEN [i \in 1..Len(Get(metric.sum)) |->
             WithResourceAttrs(
                ConvertNumberDataPoint(Get(metric.sum)[i], metric, "counter"),
                resource_attrs)]
     ELSE <<>>)
    \o (IF metric.gauge # None
        THEN [i \in 1..Len(Get(metric.gauge)) |->
                WithResourceAttrs(
                   ConvertNumberDataPoint(Get(metric.gauge)[i], metric, "gauge"),
                   resource_attrs)]
        ELSE <<>>)
    \o (IF metric.histogram # None
        THEN [i \in 1..Len(Get(metric.histogram)) |->
                WithResourceAttrs(
                   ConvertHistogramDataPoint(Get(metric.histogram)[i], metric),
                   resource_attrs)]
        ELSE <<>>)

\* the body of `for metric in sm.metrics` (lines 101-119): a payload object
\* that is present is truthy, whatever its data_points
MetricPoints(metric, resource_attrs) ==
    IF metric.sum # None
    THEN [i \in 1..Len(Get(metric.sum)) |->
            WithResourceAttrs(
               ConvertNumberDataPoint(Get(metric.sum)[i], metric, "counter"),
               resource_attrs)]
    ELSE IF metric.gauge # None
    THEN [i \in 1..Len(Get(metric.gauge)) |->
            WithResourceAttrs(
               ConvertNumberDataPoint(Get(metric.gauge)[i], metric, "gauge"),
               resource_attrs)]
    ELSE IF metric.histogram # None
    THEN [i \in 1..Len(Get(metric.histogram)) |->
            WithResourceAttrs(
               ConvertHistogramDataPoint(Get(metric.histogram)[i], metric),
               resource_attrs)]
    ELSE <<>>

\* all_points.append over nested loops: the lists one after another
RECURSIVE Concat(_)
Concat(lists) ==
    IF lists = <<>> THEN <<>> ELSE Head(lists) \o Concat(Tail(lists))

\* convert_otlp_to_internal (lines 93-120)
ConvertOtlpToInternal(req) ==
    Concat([r \in 1..Len(req) |->
        LET rm == req[r]
            resource_attrs == AttributesToDict(rm.resource.attributes)
        IN Concat([c \in 1..Len(rm.scope_metrics) |->
              LET sm == rm.scope_metrics[c] IN
              Concat([m \in 1..Len(sm.metrics) |->
                        MetricPoints(sm.metrics[m], resource_attrs)])])])

\* The modelled requests: one resource with up to two scopes, or two
\* resources with up to one scope each; a scope has up to MaxMetrics metrics
SeqsUpTo(S, n) == UNION {[1..k -> S] : k \in 0..n}

DpAttributes == <<KeyValue("k", StringValue("d"))>>

OtlpMetrics ==
    {Metric(Some(<<NumberDataPoint(DpAttributes, 1), NumberDataPoint(<<>>, 2)>>),
            None, None),
     Metric(None, Some(<<NumberDataPoint(DpAttributes, 1)>>),
            Some(<<HistogramDataPoint(<<>>, 2)>>)),
     Metric(None, None, Some(<<HistogramDataPoint(DpAttributes, 1)>>)),
     Metric(Some(<<>>), Some(<<NumberDataPoint(DpAttributes, 1)>>), None)}

ResourceAttributes ==
    {<<KeyValue("k", StringValue("r")),
       KeyValue("telemetry.sdk.name", StringValue("x"))>>,
     <<KeyValue("svc.name", BoolValue(TRUE)), KeyValue("k", NoValue)>>}

ScopeMetrics == {[metrics |-> ms] : ms \in SeqsUpTo(OtlpMetrics, MaxMetrics)}

ResourceMetrics(n) ==
    {[resource |-> [attributes |-> a], scope_metrics |-> sms] :
        a \in ResourceAttributes, sms \in SeqsUpTo(ScopeMetrics, n)}

Requests == SeqsUpTo(ResourceMetrics(2), 1) \cup [1..2 -> ResourceMetrics(1)]

NoResponse == [status |-> 0, received |-> 0]

IdleConv ==
    /\ request = <<>> /\ points = <<>> /\ rpc = "idle"
    /\ rbase = 0 /\ ridx = 0 /\ rresults = <<>> /\ response = NoResponse

\* a parsed request reaches ingest_metrics (router.py lines 11-15)
InitConv(reqs) ==
    /\ request \in reqs
    /\ points = <<>> /\ rpc = "received"
    /\ rbase = 0 /\ ridx = 0 /\ rresults = <<>> /\ response = NoResponse

\* (variant: only the points appended to the stream are counted)
IngestResponseAppended(pts, results) ==
    IF \E i \in 1..Len(results) : results[i] = "raised"
    THEN [status |-> 400, received |-> 0]
    ELSE [status |-> 200,
          received |-> Cardinality({i \in 1..Len(results) : results[i] = "sent"})]

\* how ingest_metrics ends (router.py lines 23-27): an exception of a
\* send_message call becomes a 400, otherwise {'received': len(points)}
IngestResponse(pts, results) ==
    IF \E i \in 1..Len(results) : results[i] = "raised"
    THEN [status |-> 400, received |-> 0]
    ELSE [status |-> 200, received |-> Len(pts)]

\* points = convert_otlp_to_internal(request) (router.py line 17); with no
\* point the loop body never runs and the handler returns
Convert ==
    /\ rpc = "received"
    /\ points' = ConvertOtlpToInternal(request)
    /\ rpc' = IF points' = <<>> THEN "done" ELSE "converted"
    /\ response' = IF points' = <<>> THEN IngestResponse(points', <<>>)
                   ELSE response
    /\ UNCHANGED <<request, rbase, ridx, rresults>>
    /\ UNCHANGED <<colVars, dbVars, upVars, aggVars, apiVars, grpVars>>

\* the caller of send_message that is ingest_metrics
Router == 1

\* `await redis_stream_client.send_message(point.model_dump())` (router.py
\* line 22) for the next point: the previous call has returned
RouterCall ==
    /\ rpc = "converted"
    /\ ridx < Len(points)
    /\ sent - rbase = ridx
    /\ SendMessageCall(Router)

\* one XADD of the running send_message call
RouterSendToRedis(outcome) ==
    /\ rpc = "converted"
    /\ SendToRedis(Router, outcome)

\* send_message has returned or raised: the loop goes on to the next point,
\* or the handler ends (router.py lines 19-27)
RouterResume ==
    /\ rpc = "converted"
    /\ sent - rbase = ridx + 1
    /\ spc[Router] = "idle"
    /\ rresults' = Append(rresults, last.result)
    /\ ridx' = ridx + 1
    /\ IF last.result = "raised" \/ ridx + 1 = Len(points)
       THEN /\ rpc' = "done"
            /\ response' = IngestResponse(points, rresults')
       ELSE /\ rpc' = rpc
            /\ response' = response
    /\ UNCHANGED <<request, points, rbase>>
    /\ UNCHANGED <<colVars, dbVars, upVars, aggVars, apiVars, grpVars>>

\* The requests of the ingest specification: one resource with up to three
\* scopes of up to one metric, a sum of two data points or a histogram of one
RouterMetrics ==
    {Metric(Some(<<NumberDataPoint(DpAttributes, 1), NumberDataPoint(<<>>, 2)>>),
            None, None),
     Metric(None, None, Some(<<HistogramDataPoint(DpAttributes, 1)>>))}

RouterRequests ==
    {<<[resource |-> [attributes |-> <<KeyValue("k", StringValue("r"))>>],
        scope_metrics |-> sms]>> :
        sms \in SeqsUpTo({[metrics |-> ms] : ms \in SeqsUpTo(RouterMetrics, 1)}, 3)}

\* ------------------------------------------------------------------------
\* Aggregator: the durable log and its consumer group, as the stream client
\* uses them (src/aggregator/redis_stream_client.py), and the worker loop
\* (src/aggregator/worker.py)
\* ------------------------------------------------------------------------
\* entries the modelled stream holds at a time
MaxEntries == 2
\* failures in one behaviour: store or stream operations that raise, and
\* kills of the aggregator process
MaxFaults == 1
\* sample rows the model keeps per table
MaxRows == 4

\* settings.REDIS_BATCH_SIZE and settings.REDIS_PENDING_IDLE_MS (the latter
\* is the model's unit of time: one Tick is REDIS_PENDING_IDLE_MS elapsing)
REDIS_BATCH_SIZE == 2
REDIS_PENDING_IDLE_MS == 1

\* The `data` field of an entry: a JSON metric point, nothing, or bytes that
\* do not parse into a MetricPoint.
PointPayload(p) == [kind |-> "point", point |-> Some(p)]
EmptyPayload == [kind |-> "empty", point |-> None]
GarbagePayload == [kind |-> "garbage", point |-> None]

\* RedisStreamClient._parse_message: the point, None when parsing raises
ParseMessage(payload) == payload.point

Min(a, b) == IF a < b THEN a ELSE b

RECURSIVE SortedSeq(_)
SortedSeq(S) ==
    IF S = {} THEN <<>>
    ELSE LET m == CHOOSE x \in S : \A y \in S : x <= y
         IN <<m>> \o SortedSeq(S \ {m})

FirstN(q, n) == SubSeq(q, 1, Min(n, Len(q)))

\* insert_metric's checks of the type-dependent fields (lines 53-73)
RaisesValueError(point) ==
    IF point.type \in {"counter", "gauge"}
    THEN point.value = None
    ELSE point.sum = None \/ point.count = None \/ point.bucket_counts = None

\* _get_or_create_metric_id (lines 90-131): the INSERT, then the SELECT when
\* the INSERT returned no row
GetOrCreateMetricId(info, point) ==
    LET r == InsertInfo(info, point) IN
    IF r.id # 0 THEN r ELSE [info |-> info, id |-> SelectInfo(info, point)]

ValueRow(point, id) ==
    [time |-> point.timestamp_nano, metric_id |-> id, value |-> Get(point.value)]
HistogramRow(point, id) ==
    [time |-> point.timestamp_nano, metric_id |-> id, sum |-> Get(point.sum),
     count |-> Get(point.count), bucket_counts |-> Get(point.bucket_counts)]

\* a field as the INSERT receives it, a null stored as 0
OrZero(o) == IF o = None THEN 0 ELSE Get(o)

\* (variant: the type-dependent fields are not checked before the INSERT)
InsertMetricOpUnchecked(db, point, pool, outcome) ==
    LET up == GetOrCreateMetricId(db.info, point)
        upserted == [db EXCEPT !.info = up.info]
    IN
    IF ~pool
    THEN [ok |-> FALSE, error |-> "RuntimeError", db |-> db]
    ELSE IF outcome = "error_before_upsert"
    THEN [ok |-> FALSE, error |-> "StoreError", db |-> db]
    ELSE IF up.id = 0
    THEN [ok |-> FALSE, error |-> "RuntimeError", db |-> upserted]
    ELSE IF outcome = "error_after_upsert"
    THEN [ok |-> FALSE, error |-> "StoreError", db |-> upserted]
    ELSE IF point.type \in {"counter", "gauge"}
    THEN [ok |-> TRUE, error |-> "none",
          db |-> [upserted EXCEPT
                    !.values = Append(@, [time |-> point.timestamp_nano,
                                          metric_id |-> up.id,
                                          value |-> OrZero(point.value)])]]
    ELSE [ok |-> TRUE, error |-> "none",
          db |-> [upserted EXCEPT
                    !.histograms =
                        Append(@, [time |-> point.timestamp_nano,
                                   metric_id |-> up.id,
                                   sum |-> OrZero(point.sum),
                                   count |-> OrZero(point.count),
                                   bucket_counts |-> OrZero(point.bucket_counts)])]]

\* (variant: a sample row is not written when the table holds a row with the
\* same time and metric_id)
InsertMetricOpDedup(db, point, pool, outcome) ==
    LET up == GetOrCreateMetricId(db.info, point)
        upserted == [db EXCEPT !.info = up.info]
        Known(rows) == \E i \in 1..Len(rows) :
                          /\ rows[i].time = point.timestamp_nano
                          /\ rows[i].metric_id = up.id
    IN
    IF ~pool
    THEN [ok |-> FALSE, error |-> "RuntimeError", db |-> db]
    ELSE IF outcome = "error_before_upsert"
    THEN [ok |-> FALSE, error |-> "StoreError", db |-> db]
    ELSE IF up.id = 0
    THEN [ok |-> FALSE, error |-> "RuntimeError", db |-> upserted]
    ELSE IF RaisesValueError(point)
    THEN [ok |-> FALSE, error |-> "ValueError", db |-> upserted]
    ELSE IF outcome = "error_after_upsert"
    THEN [ok |-> FALSE, error |-> "StoreError", db |-> upserted]
    ELSE IF point.type \in {"counter", "gauge"}
    THEN [ok |-> TRUE, error |-> "none",
          db |-> IF Known(db.values) THEN upserted
                 ELSE [upserted EXCEPT
                         !.values = Append(@, ValueRow(point, up.id))]]
    ELSE [ok |-> TRUE, error |-> "none",
          db |-> IF Known(db.histograms) THEN upserted
                 ELSE [upserted EXCEPT
                         !.histograms = Append(@, HistogramRow(point, up.id))]]

\* insert_metric (lines 47-88) on the tables db = [info, values, histograms]:
\* whether it returned, what it raised, and the tables afterwards. outcome
\* tells where the store fails, if it does: in _get_or_create_metric_id
\* (line 52) or in the INSERT of the sample row (lines 56 and 74).
InsertMetricOp(db, point, pool, outcome) ==
    LET up == GetOrCreateMetricId(db.info, point)
        upserted == [db EXCEPT !.info = up.info]
    IN
    IF ~pool
    THEN [ok |-> FALSE, error |-> "RuntimeError", db |-> db]
    ELSE IF outcome = "error_before_upsert"
    THEN [ok |-> FALSE, error |-> "StoreError", db |-> db]
    ELSE IF up.id = 0
    THEN [ok |-> FALSE, error |-> "RuntimeError", db |-> upserted]
    ELSE IF RaisesValueError(point)
    THEN [ok |-> FALSE, error |-> "ValueError", db |-> upserted]
    ELSE IF outcome = "error_after_upsert"
    THEN [ok |-> FALSE, error |-> "StoreError", db |-> upserted]
    ELSE IF point.type \in {"counter", "gauge"}
    THEN [ok |-> TRUE, error |-> "none",
          db |-> [upserted EXCEPT !.values = Append(@, ValueRow(point, up.id))]]
    ELSE [ok |-> TRUE, error |-> "none",
          db |-> [upserted EXCEPT
                    !.histograms = Append(@, HistogramRow(point, up.id))]]

\* The generators of read_messages (lines 103-129) and
\* claim_pending_messages (lines 158-184) run over the fetched entries up to
\* the next suspension: entries without data are skipped by the read and acked
\* by the claim, entries that do not parse are logged and skipped.
\* (variant: an entry that does not parse ends the generator)
RECURSIVE SkipToUncaught(_, _, _)
SkipToUncaught(str, ids, p) ==
    IF ids = <<>> THEN <<>>
    ELSE IF \/ ParseMessage(str[Head(ids)]) # None
            \/ (p = "claim" /\ str[Head(ids)].kind = "empty")
    THEN ids
    ELSE IF str[Head(ids)].kind = "garbage" THEN <<>>
    ELSE SkipToUncaught(str, Tail(ids), p)

\* (variant: an entry that does not parse is handed on like one that does)
RECURSIVE SkipToUnparsed(_, _, _)
SkipToUnparsed(str, ids, p) ==
    IF ids = <<>> THEN <<>>
    ELSE IF \/ str[Head(ids)].kind # "empty"
            \/ (p = "claim" /\ str[Head(ids)].kind = "empty")
    THEN ids
    ELSE SkipToUnparsed(str, Tail(ids), p)

\* (variant: the claim skips an entry without data as the read does)
RECURSIVE SkipToPointsOnly(_, _, _)
SkipToPointsOnly(str, ids, p) ==
    IF ids = <<>> THEN <<>>
    ELSE IF ParseMessage(str[Head(ids)]) # None THEN ids
    ELSE SkipToPointsOnly(str, Tail(ids), p)

RECURSIVE SkipTo(_, _, _)
SkipTo(str, ids, p) ==
    IF ids = <<>> THEN <<>>
    ELSE IF \/ ParseMessage(str[Head(ids)]) # None
            \/ (p = "claim" /\ str[Head(ids)].kind = "empty")
    THEN ids
    ELSE SkipTo(str, Tail(ids), p)

\* The worker between two entries or iterations
Resting(pcv) ==
    [wpc |-> pcv, cur |-> 0, batch |-> <<>>, path |-> "read",
     processed_new |-> FALSE]

\* (variant: the loop condition does not look at the flag)
LoopHeadIgnoresFlag(run, ropen) == IF ~ropen THEN "sleep" ELSE "read"

\* `while self._running:` followed by the call of read_messages, which raises
\* when the client is not started (caught at line 52, then sleep)
LoopHead(run, ropen) ==
    IF ~run THEN "returned" ELSE IF ~ropen THEN "sleep" ELSE "read"

\* (variant: pending recovery runs only after a read that yielded points)
RunsClaimWhenBusy(p, pn) == p = "read" /\ pn

\* `if not processed_new: await self._process_pending_messages()` (line 47)
RunsClaim(p, pn) == p = "read" /\ ~pn

\* The end of a generator: after the read, pending recovery or the next
\* iteration; after the claim, the next iteration
AfterGenerator(p, pn, run, ropen) ==
    IF RunsClaim(p, pn)
    THEN IF ropen THEN [Resting("pending") EXCEPT !.path = "claim"]
         ELSE Resting("sleep")
    ELSE Resting(LoopHead(run, ropen))

\* (variant: the generator hands the fetched entries on last first)
ContinueLastFirst(str, rest, p, pn, run, ropen) ==
    LET r == SkipTo(str, rest, p) IN
    IF r = <<>> THEN AfterGenerator(p, pn, run, ropen)
    ELSE [wpc |-> IF str[r[Len(r)]].kind = "empty" THEN "ack" ELSE "insert",
          cur |-> r[Len(r)], batch |-> SubSeq(r, 1, Len(r) - 1), path |-> p,
          processed_new |-> pn \/ p = "read"]

\* The worker after it is done with one entry: on to the next entry the
\* generator yields (insert) or acks itself (claimed entry without data)
Continue(str, rest, p, pn, run, ropen) ==
    LET r == SkipTo(str, rest, p) IN
    IF r = <<>> THEN AfterGenerator(p, pn, run, ropen)
    ELSE [wpc |-> IF str[Head(r)].kind = "empty" THEN "ack" ELSE "insert",
          cur |-> Head(r), batch |-> Tail(r), path |-> p,
          processed_new |-> pn \/ p = "read"]

SetWorker(w) ==
    /\ wpc' = w.wpc
    /\ cur' = w.cur
    /\ batch' = w.batch
    /\ path' = w.path
    /\ processed_new' = w.processed_new

\* A store or stream operation fails only while the environment has failures left
UseFault(failing) ==
    IF failing THEN faults > 0 /\ faults' = faults - 1 ELSE faults' = faults

\* (variant: the worker acks whether or not the insert succeeded)
AcksAfterAlways(ok) == TRUE

\* worker.py lines 30-45 and 63-74: ack only when insert_metric returned
AcksAfter(ok) == ok

\* await self.consumer.ensure_consumer_group() (worker.py line 18): outside
\* the loop's try, so an error ends start() with that exception
EnsureConsumerGroup(outcome) ==
    /\ wpc = "ensure"
    /\ outcome \in {"ok", "error"}
    /\ UseFault(outcome = "error")
    /\ IF outcome = "ok" /\ redis_open
       THEN SetWorker(Resting(LoopHead(running, redis_open)))
       ELSE SetWorker(Resting("failed"))
    /\ UNCHANGED <<logVars, consumer, running, connVars, arrivals, menu,
                   histVars>>
    /\ UNCHANGED <<colVars, dbVars, upVars, lifeVars, convVars, apiVars, grpVars>>

\* XREADGROUP ... '>' COUNT count returns (read_messages lines 103-113), and
\* the generator runs to its first yield or to its end
ReadMessages(outcome) ==
    /\ wpc = "read"
    /\ outcome \in {"ok", "error"}
    /\ outcome = "error" => redis_open
    /\ UseFault(outcome = "error")
    /\ IF outcome = "ok" /\ redis_open
       THEN LET n == Min(REDIS_BATCH_SIZE, Len(stream) - last_delivered)
                new == [i \in 1..n |-> last_delivered + i]
            IN /\ last_delivered' = last_delivered + n
               /\ pel' = [e \in DOMAIN pel \cup {new[i] : i \in 1..n} |->
                            IF e > last_delivered
                            THEN [consumer |-> consumer, idle |-> 0]
                            ELSE pel[e]]
               /\ SetWorker(Continue(stream, new, "read", FALSE, running, redis_open))
       ELSE /\ UNCHANGED <<last_delivered, pel>>
            /\ SetWorker(Resting("sleep"))
    /\ UNCHANGED <<stream, consumer, running, connVars, arrivals, menu,
                   histVars>>
    /\ UNCHANGED <<colVars, dbVars, upVars, lifeVars, convVars, apiVars, grpVars>>

\* await self.db.insert_metric(point) for the yielded entry (worker.py lines
\* 31 and 64), and the except branch when it raises
InsertMetric(outcome) ==
    /\ wpc = "insert"
    /\ outcome \in {"ok", "error_before_upsert", "error_after_upsert"}
    /\ outcome # "ok" => pool_open
    /\ UseFault(outcome # "ok")
    /\ Len(metrics_values) < MaxRows
    /\ Len(metrics_histograms) < MaxRows
    /\ LET point == Get(ParseMessage(stream[cur]))
           db == [info |-> metrics_info, values |-> metrics_values,
                  histograms |-> metrics_histograms]
           r == InsertMetricOp(db, point, pool_open, outcome)
       IN /\ metrics_info' = r.db.info
          /\ metrics_values' = r.db.values
          /\ metrics_histograms' = r.db.histograms
          /\ failed_ins' = IF r.ok THEN failed_ins \ {cur} ELSE failed_ins \cup {cur}
          /\ persisted' = (persisted \/ (r.ok /\ cur = mark))
          /\ IF AcksAfter(r.ok)
             THEN /\ wpc' = "ack"
                  /\ UNCHANGED <<cur, batch, path, processed_new>>
             ELSE SetWorker(Continue(stream, batch, path, processed_new,
                                     running, redis_open))
    /\ UNCHANGED <<logVars, consumer, running, connVars, arrivals, menu, mark,
                   acks, orphans>>
    /\ UNCHANGED <<colVars, upVars, lifeVars, convVars, apiVars, grpVars>>

\* await self.consumer.ack(msg_id) after the insert (worker.py lines 32 and
\* 65), or await self.ack(msg_id) of a claimed entry without data
\* (redis_stream_client.py line 176); then on to the next entry
Ack(outcome) ==
    /\ wpc = "ack"
    /\ outcome \in {"ok", "error"}
    /\ outcome = "error" => redis_open
    /\ UseFault(outcome = "error")
    /\ IF outcome = "ok" /\ redis_open
       THEN /\ pel' = [e \in DOMAIN pel \ {cur} |-> pel[e]]
            /\ acks' = IF stream[cur].kind = "point"
                       THEN acks \cup {[entry |-> cur, path |-> path]}
                       ELSE acks
       ELSE /\ pel' = pel
            /\ acks' = acks
    /\ SetWorker(Continue(stream, batch, path, processed_new, running, redis_open))
    /\ UNCHANGED <<stream, last_delivered, consumer, running, connVars, arrivals,
                   menu, failed_ins, orphans, mark, persisted>>
    /\ UNCHANGED <<colVars, dbVars, upVars, lifeVars, convVars, apiVars, grpVars>>

\* (variant: XPENDING is asked for the calling consumer's entries only)
IdlePendingOwn(p) ==
    {e \in DOMAIN p : p[e].idle >= REDIS_PENDING_IDLE_MS /\ p[e].consumer = consumer}

\* the entries XPENDING ... IDLE min_idle - + count lists
IdlePending(p) == {e \in DOMAIN p : p[e].idle >= REDIS_PENDING_IDLE_MS}

\* await self._redis.xpending_range(...) (lines 143-154)
XPendingRange(outcome) ==
    /\ wpc = "pending"
    /\ outcome \in {"ok", "error"}
    /\ outcome = "error" => redis_open
    /\ UseFault(outcome = "error")
    /\ LET ids == FirstN(SortedSeq(IdlePending(pel)), REDIS_BATCH_SIZE) IN
       IF outcome = "ok" /\ redis_open /\ ids # <<>>
       THEN /\ wpc' = "xclaim"
            /\ batch' = ids
            /\ UNCHANGED <<cur, path, processed_new>>
       ELSE SetWorker(Resting(LoopHead(running, redis_open)))
    /\ UNCHANGED <<logVars, consumer, running, connVars, arrivals, menu,
                   histVars>>
    /\ UNCHANGED <<colVars, dbVars, upVars, lifeVars, convVars, apiVars, grpVars>>

\* (variant: XCLAIM is called without the listed ids)
ClaimedOfNone(p, ids) == <<>>

\* (variant: XCLAIM is called with min_idle_time 0 and takes every listed
\* entry that is still pending)
ClaimedOfPending(p, ids) ==
    SelectSeq(ids, LAMBDA e : e \in DOMAIN p)

\* the listed entries XCLAIM ... min_idle_time transfers: those still pending
\* and idle long enough
ClaimedOf(p, ids) ==
    SelectSeq(ids, LAMBDA e : e \in IdlePending(p))

\* await self._redis.xclaim(...) (lines 158-167), and the generator runs to
\* its first yield, to its first ack of an entry without data, or to its end
XClaim(outcome) ==
    /\ wpc = "xclaim"
    /\ outcome \in {"ok", "error"}
    /\ outcome = "error" => redis_open
    /\ UseFault(outcome = "error")
    /\ IF outcome = "ok" /\ redis_open
       THEN LET claimed == ClaimedOf(pel, batch) IN
            /\ pel' = [e \in DOMAIN pel |->
                         IF \E i \in 1..Len(claimed) : claimed[i] = e
                         THEN [consumer |-> consumer, idle |-> 0]
                         ELSE pel[e]]
            /\ SetWorker(Continue(stream, claimed, "claim", processed_new,
                                  running, redis_open))
       ELSE /\ pel' = pel
            /\ SetWorker(Resting(LoopHead(running, redis_open)))
    /\ UNCHANGED <<stream, last_delivered, consumer, running, connVars, arrivals,
                   menu, histVars>>
    /\ UNCHANGED <<colVars, dbVars, upVars, lifeVars, convVars, apiVars, grpVars>>

\* await asyncio.sleep(1) is over (worker.py line 56)
Wake ==
    /\ wpc = "sleep"
    /\ SetWorker(Resting(LoopHead(running, redis_open)))
    /\ UNCHANGED <<logVars, consumer, running, connVars, envVars, histVars>>
    /\ UNCHANGED <<colVars, dbVars, upVars, lifeVars, convVars, apiVars, grpVars>>

\* A producer appends an entry (the collector's XADD)
XAdd(payload) ==
    /\ payload \in menu
    /\ arrivals # 0
    /\ Len(stream) < MaxEntries
    /\ stream' = Append(stream, payload)
    /\ arrivals' = IF arrivals > 0 THEN arrivals - 1 ELSE arrivals
    /\ mark' = IF /\ mark = 0
                  /\ ParseMessage(payload) # None
                  /\ ~RaisesValueError(Get(ParseMessage(payload)))
               THEN Len(stream) + 1 ELSE mark
    /\ UNCHANGED <<last_delivered, pel, workerVars, connVars, faults, menu,
                   failed_ins, acks, orphans, persisted>>
    /\ UNCHANGED <<colVars, dbVars, upVars, lifeVars, convVars, apiVars, grpVars>>

\* REDIS_PENDING_IDLE_MS elapses: every pending entry has now been idle that long
Tick ==
    /\ \E e \in DOMAIN pel : pel[e].idle < REDIS_PENDING_IDLE_MS
    /\ pel' = [e \in DOMAIN pel |->
                 [pel[e] EXCEPT !.idle = Min(@ + 1, REDIS_PENDING_IDLE_MS)]]
    /\ UNCHANGED <<stream, last_delivered, workerVars, connVars, envVars, histVars>>
    /\ UNCHANGED <<colVars, dbVars, upVars, lifeVars, convVars, apiVars, grpVars>>

\* The aggregator process is killed: its state and connections are gone
Kill ==
    /\ wpc # "dead"
    /\ UseFault(TRUE)
    /\ SetWorker(Resting("dead"))
    /\ redis_open' = FALSE
    /\ pool_open' = FALSE
    /\ orphans' = orphans \cup DOMAIN pel
    /\ UNCHANGED <<logVars, consumer, running, arrivals, menu, failed_ins, acks,
                   mark, persisted>>
    /\ UNCHANGED <<colVars, dbVars, upVars, lifeVars, convVars, apiVars, grpVars>>

\* The process is started again: lifespan() (main.py lines 23-29) with a new
\* REDIS_CONSUMER_NAME (config.py lines 30-32)
Restart ==
    /\ wpc = "dead"
    /\ consumer' = consumer + 1
    /\ running' = TRUE
    /\ redis_open' = TRUE
    /\ pool_open' = TRUE
    /\ SetWorker(Resting("ensure"))
    /\ UNCHANGED <<logVars, envVars, histVars>>
    /\ UNCHANGED <<colVars, dbVars, upVars, lifeVars, convVars, apiVars, grpVars>>

\* The model's window on the stream: an entry that was acked is dropped from
\* it and the ids after it are renumbered
Shift(j, i) == IF j > i THEN j - 1 ELSE j

Forget(i) ==
    /\ i \in 1..Len(stream)
    /\ i <= last_delivered
    /\ i \notin DOMAIN pel
    /\ i # cur /\ i # mark
    /\ \A k \in 1..Len(batch) : batch[k] # i
    /\ stream' = [j \in 1..(Len(stream) - 1) |->
                    IF j < i THEN stream[j] ELSE stream[j + 1]]
    /\ last_delivered' = last_delivered - 1
    /\ pel' = [j \in {Shift(k, i) : k \in DOMAIN pel} |->
                 pel[IF j >= i THEN j + 1 ELSE j]]
    /\ batch' = [k \in 1..Len(batch) |-> Shift(batch[k], i)]
    /\ cur' = Shift(cur, i)
    /\ mark' = IF mark > 0 THEN Shift(mark, i) ELSE mark
    /\ failed_ins' = {Shift(e, i) : e \in failed_ins \ {i}}
    /\ orphans' = {Shift(e, i) : e \in orphans \ {i}}
    /\ acks' = {[a EXCEPT !.entry = Shift(@, i)] : a \in {b \in acks : b.entry # i}}
    /\ UNCHANGED <<wpc, consumer, path, processed_new, running, connVars, envVars,
                   persisted>>
    /\ UNCHANGED <<colVars, dbVars, upVars, lifeVars, convVars, apiVars, grpVars>>

\* The store's retention drops the oldest sample row of a full table
Retention ==
    /\ \/ /\ Len(metrics_values) >= MaxRows
          /\ metrics_values' = Tail(metrics_values)
          /\ UNCHANGED metrics_histograms
       \/ /\ Len(metrics_histograms) >= MaxRows
          /\ metrics_histograms' = Tail(metrics_histograms)
          /\ UNCHANGED metrics_values
    /\ UNCHANGED <<metrics_info, colVars, upVars, aggVars, convVars, apiVars, grpVars>>

\* ------------------------------------------------------------------------
\* Aggregator shutdown: lifespan() (src/aggregator/main.py)
\* ------------------------------------------------------------------------
NotClosed == [db |-> "not_called", redis |-> "not_called"]

\* the worker task has finished: start() returned, raised, or was cancelled
TaskDone(pcv) == pcv \in {"returned", "failed", "cancelled"}

\* (variant: the timeout does not cancel the worker task)
AfterCancelNotDelivered(pcv) == pcv

\* CancelledError thrown into start() at its current await: caught inside the
\* loop's try (worker.py lines 49-51, break), not caught at line 18 nor in
\* the sleep of line 56
AfterCancel(pcv) == IF pcv \in {"ensure", "sleep"} THEN "cancelled" ELSE "returned"

\* the shutdown event is set: the finally block starts with
\* aggregation_worker.stop() (main.py lines 32-34, worker.py lines 76-77)
Shutdown ==
    /\ lpc = "serving"
    /\ wpc # "dead"
    /\ running' = FALSE
    /\ lpc' = "wait_for"
    /\ UNCHANGED <<logVars, wpc, consumer, path, batch, cur, processed_new,
                   connVars, envVars, histVars, closing>>
    /\ UNCHANGED <<colVars, dbVars, upVars, convVars, apiVars, grpVars>>

\* (variant: wait_for never re-raises the worker's exception)
WaitForRaisesNever(pcv) == FALSE

\* await asyncio.wait_for(worker_task, ...) re-raises the exception of a
\* worker task that failed; only TimeoutError is caught (main.py lines 35-40)
WaitForRaises(pcv) == pcv = "failed"

\* await asyncio.wait_for(worker_task, timeout) is over (main.py lines 35-43):
\* the task was done, or the timeout cancelled it
WaitFor(outcome) ==
    /\ lpc = "wait_for"
    /\ outcome \in {"done", "timeout"}
    /\ IF outcome = "done"
       THEN /\ TaskDone(wpc)
            /\ lpc' = IF WaitForRaises(wpc) THEN "raised" ELSE "close"
            /\ UNCHANGED workerVars
       ELSE /\ ~TaskDone(wpc)
            /\ SetWorker(Resting(AfterCancel(wpc)))
            /\ lpc' = "close"
            /\ UNCHANGED <<consumer, running>>
    /\ UNCHANGED <<logVars, connVars, envVars, histVars, closing>>
    /\ UNCHANGED <<colVars, dbVars, upVars, convVars, apiVars, grpVars>>

\* await asyncio.gather(timescale_db.close(), redis_stream_client.stop(),
\* return_exceptions=True) (main.py lines 44-49): an error of either close is
\* returned by gather, and leaves that connection object in place
CloseBoth(db_outcome, redis_outcome) ==
    /\ lpc = "close"
    /\ db_outcome \in {"ok", "error"}
    /\ redis_outcome \in {"ok", "error"}
    /\ pool_open' = (pool_open /\ db_outcome = "error")
    /\ redis_open' = (redis_open /\ redis_outcome = "error")
    /\ closing' = [db |-> db_outcome, redis |-> redis_outcome]
    /\ lpc' = "done"
    /\ UNCHANGED <<logVars, workerVars, envVars, histVars>>
    /\ UNCHANGED <<colVars, dbVars, upVars, convVars, apiVars, grpVars>>

InitAgg(n_arrivals, n_faults, payloads, tracked) ==
    /\ stream = <<>>
    /\ last_delivered = 0
    /\ pel = <<>>
    /\ wpc = "ensure"
    /\ consumer = 1
    /\ path = "read"
    /\ batch = <<>>
    /\ cur = 0
    /\ processed_new = FALSE
    /\ running = TRUE
    /\ redis_open = TRUE
    /\ pool_open = TRUE
    /\ arrivals = n_arrivals
    /\ faults = n_faults
    /\ menu = payloads
    /\ failed_ins = {}
    /\ acks = {}
    /\ orphans = {}
    /\ mark = tracked
    /\ persisted = FALSE
    /\ lpc = "serving"
    /\ closing = NotClosed

IdleAgg == InitAgg(0, 0, {}, -1)

AllPayloads ==
    {PointPayload(PCounter), PointPayload(PHistogram),
     PointPayload(PCounterNoValue), EmptyPayload, GarbagePayload}

\* Points that fail insert_metric's checks (db.py lines 53-73): a counter or
\* gauge without value, a histogram without sum, count or bucket_counts
InvalidPoints ==
    {PCounterNoValue,
     [PGauge EXCEPT !.value = None],
     [PHistogram EXCEPT !.sum = None],
     [PHistogram EXCEPT !.count = None],
     [PHistogram EXCEPT !.bucket_counts = None]}

InvalidPayloads == {PointPayload(p) : p \in InvalidPoints}

\* Points of one name and one set of attributes and of the three types, the
\* histogram without explicit_bounds: all have the same descriptor identity
TypePayloads ==
    {PointPayload(PCounter), PointPayload(PGauge), PointPayload(PHistogramNoBounds)}

\* Counter points of one descriptor that differ in value, so that their
\* sample rows tell the entries apart
BatchPayloads ==
    {PointPayload(PCounter), PointPayload([PCounter EXCEPT !.value = Some(2)])}

WorkerStep ==
    \/ \E o \in {"ok", "error"} : EnsureConsumerGroup(o)
    \/ \E o \in {"ok", "error"} : ReadMessages(o)
    \/ \E o \in {"ok", "error_before_upsert", "error_after_upsert"} : InsertMetric(o)
    \/ \E o \in {"ok", "error"} : Ack(o)
    \/ \E o \in {"ok", "error"} : XPendingRange(o)
    \/ \E o \in {"ok", "error"} : XClaim(o)
    \/ Wake

\* ------------------------------------------------------------------------
\* Query API: counter functions (src/api/db.py)
\* ------------------------------------------------------------------------
\* length and values of the modelled counter sequences, and window lengths
MaxPoints == 3
MaxValue == 2
MaxWindow == 2

\* a float quotient, kept exact
Rat(num, den) == [num |-> num, den |-> den]
RatEq(a, b) == a.num * b.den = b.num * a.den

\* (variant: a negative delta is added as it is)
DeltaNoReset(prev_val, curr_val) == curr_val - prev_val

\* delta = curr_val - prev_val; if delta < 0: delta = curr_val (lines 436-438
\* and 454-456)
Delta(prev_val, curr_val) ==
    IF curr_val - prev_val < 0 THEN curr_val ELSE curr_val - prev_val

\* total_delta after `for i in range(1, n)` over points (ts, val)
RECURSIVE TotalDelta(_, _)
TotalDelta(pts, n) ==
    IF n < 2 THEN 0
    ELSE TotalDelta(pts, n - 1) + Delta(pts[n - 1][2], pts[n][2])

\* calculate_increase_with_resets (lines 443-459)
CalculateIncreaseWithResets(pts) ==
    IF Len(pts) < 2 THEN 0 ELSE TotalDelta(pts, Len(pts))

\* calculate_rate_with_resets (lines 424-441)
CalculateRateWithResets(pts, window_seconds) ==
    IF Len(pts) < 2 THEN Rat(0, 1)
    ELSE Rat(TotalDelta(pts, Len(pts)), window_seconds)

\* time-ascending sequences of (ts, val)
CounterSequences ==
    {[i \in 1..Len(vals) |-> <<i, vals[i]>>] :
        vals \in SeqsUpTo(0..MaxValue, MaxPoints)}

InitRate ==
    /\ qreq \in {[kind |-> "counter", points |-> pts, window_seconds |-> w] :
                    pts \in CounterSequences, w \in 1..MaxWindow}
    /\ qresp = NoQuery /\ qpc = "idle" /\ qcalls = 0

CalculateIncrease ==
    /\ qpc = "idle" /\ qreq.kind = "counter"
    /\ qresp' = [kind |-> "increase",
                 value |-> Rat(CalculateIncreaseWithResets(qreq.points), 1)]
    /\ qpc' = "done"
    /\ UNCHANGED <<qreq, qcalls>>
    /\ UNCHANGED <<colVars, dbVars, upVars, aggVars, convVars, grpVars>>

CalculateRate ==
    /\ qpc = "idle" /\ qreq.kind = "counter"
    /\ qresp' = [kind |-> "rate",
                 value |-> CalculateRateWithResets(qreq.points,
                                                   qreq.window_seconds)]
    /\ qpc' = "done"
    /\ UNCHANGED <<qreq, qcalls>>
    /\ UNCHANGED <<colVars, dbVars, upVars, aggVars, convVars, grpVars>>


\* ------------------------------------------------------------------------
\* Query API: range queries (src/api/promql_parser.py,
\* src/api/services/prometheus.py, src/api/router.py, src/api/db.py)
\* ------------------------------------------------------------------------
\* start and end are multiples of ten seconds up to 10 * MaxTick
MaxTick == 3

\* get_lookback_seconds(default=300)
DefaultLookback == 300

ParsedQuery(metric_name, function, range, scalar_value) ==
    [error |-> FALSE, metric_name |-> metric_name, function |-> function,
     range |-> range, scalar_value |-> scalar_value]

ParseError == [error |-> TRUE]

\* the modelled query strings
Queries ==
    {"", "up", "up{}", "1", "1+1", "rate(c[30s])", "increase(c[30s])"}

\* plain selectors: of a gauge, a counter, a histogram and a name that is not
\* stored
RawQueries == {"g", "c", "h", "nometric"}

\* PromQLParser.parse (lines 117-133) on the modelled queries: the empty
\* query raises ParseError, a ValueError (line 120); 'up', '1' and '1+1' are
\* answered before the pattern is tried, each with a scalar_value and no
\* metric name (lines 122-127); the others match _FULL_EXPR_PATTERN and go
\* through _build_parsed_query (lines 144-173)
Parse(query) ==
    CASE query = "" -> ParseError
      [] query = "up" -> ParsedQuery(None, "raw", None, Some("1"))
      [] query = "1" -> ParsedQuery(None, "raw", None, Some("1"))
      [] query = "1+1" -> ParsedQuery(None, "raw", None, Some("2"))
      [] query = "up{}" -> ParsedQuery(Some("up"), "raw", None, None)
      [] query = "rate(c[30s])" -> ParsedQuery(Some("c"), "rate", Some(30), None)
      [] query = "increase(c[30s])" ->
            ParsedQuery(Some("c"), "increase", Some(30), None)
      [] query \in RawQueries -> ParsedQuery(Some(query), "raw", None, None)

\* ParsedQuery.get_lookback_seconds (lines 28-29)
GetLookbackSeconds(parsed) ==
    IF parsed.range # None THEN Get(parsed.range) ELSE DefaultLookback

\* (variant: no expression counts as a scalar)
IsScalarNever(parsed) == FALSE

\* parsed.scalar_value is not None (prometheus.py line 164)
IsScalar(parsed) == parsed.scalar_value # None

\* the `up` branch (prometheus.py lines 171-183): one sample of 1.0 per
\* current_ts from start while current_ts <= end
RECURSIVE UpSeries(_, _, _)
UpSeries(current_ts, end, step) ==
    IF current_ts <= end
    THEN <<[attrs |-> "", t |-> current_ts, value |-> Rat(1, 1)]>>
         \o UpSeries(current_ts + step, end, step)
    ELSE <<>>

\* the stored points (time, value) of the counter c
CounterPoints == <<<<0, 0>>, <<10, 10>>, <<20, 5>>, <<30, 15>>>>

\* the stored points of the counter s, which has no sample between 0 and 30
SparsePoints == <<<<0, 4>>, <<30, 1>>>>

\* the metrics_values rows, by time, of the descriptors of type counter with
\* the given name
CounterRows(metric_name) ==
    IF metric_name = "c" THEN CounterPoints
    ELSE IF metric_name = "s" THEN SparsePoints
    ELSE <<>>

\* fetch_counter_raw_values (db.py lines 104-134): the points with
\* start_ts <= time <= end_ts, by time
FetchCounterRawValues(metric_name, start_ts, end_ts) ==
    SelectSeq(CounterRows(metric_name),
              LAMBDA p : start_ts <= p[1] /\ p[1] <= end_ts)

\* (variant: a bucket does not take the points at its end)
RECURSIVE BucketsHalfOpen(_, _, _, _, _)
BucketsHalfOpen(raw_points, current, end_dt, step_seconds, function) ==
    IF current <= end_dt
    THEN LET bucket_end == current + step_seconds
             window_points ==
                 SelectSeq(raw_points,
                           LAMBDA p : current <= p[1] /\ p[1] < bucket_end)
             rest == BucketsHalfOpen(raw_points, bucket_end, end_dt, step_seconds,
                                     function)
         IN IF Len(window_points) >= 2
            THEN <<[attrs |-> "", t |-> current,
                    value |-> IF function = "rate"
                              THEN CalculateRateWithResets(window_points,
                                                           step_seconds)
                              ELSE Rat(CalculateIncreaseWithResets(window_points),
                                       1)]>> \o rest
            ELSE IF window_points # <<>>
            THEN <<[attrs |-> "", t |-> current, value |-> Rat(0, 1)]>> \o rest
            ELSE rest
    ELSE <<>>

\* the while loop of _fetch_counter_rate_or_increase (db.py lines 403-420)
RECURSIVE Buckets(_, _, _, _, _)
Buckets(raw_points, current, end_dt, step_seconds, function) ==
    IF current <= end_dt
    THEN LET bucket_end == current + step_seconds
             window_points ==
                 SelectSeq(raw_points,
                           LAMBDA p : current <= p[1] /\ p[1] <= bucket_end)
             rest == Buckets(raw_points, bucket_end, end_dt, step_seconds, function)
         IN IF Len(window_points) >= 2
            THEN <<[attrs |-> "", t |-> current,
                    value |-> IF function = "rate"
                              THEN CalculateRateWithResets(window_points,
                                                           step_seconds)
                              ELSE Rat(CalculateIncreaseWithResets(window_points),
                                       1)]>> \o rest
            ELSE IF window_points # <<>>
            THEN <<[attrs |-> "", t |-> current, value |-> Rat(0, 1)]>> \o rest
            ELSE rest
    ELSE <<>>

\* _fetch_counter_rate_or_increase (db.py lines 383-422)
FetchCounterRateOrIncrease(metric_name, start_ts, end_ts, step_seconds, function) ==
    LET raw_points == FetchCounterRawValues(metric_name, start_ts, end_ts) IN
    IF raw_points = <<>> THEN <<>>
    ELSE Buckets(raw_points, start_ts, end_ts, step_seconds, function)

\* the outcome of a call: the exception raised or the rows returned, and the
\* store queries made
Raised(exc) == [exc |-> exc, samples |-> <<>>, calls |-> 0]
Returned(samples, calls) == [exc |-> "none", samples |-> samples, calls |-> calls]

\* the metrics_info rows the queries run against: the gauge g with two label
\* sets, the counters c and s, the histogram h
ApiInfo ==
    <<[id |-> 1, name |-> "g", attributes |-> "x=1", type |-> "gauge"],
      [id |-> 2, name |-> "g", attributes |-> "x=2", type |-> "gauge"],
      [id |-> 3, name |-> "c", attributes |-> "", type |-> "counter"],
      [id |-> 4, name |-> "s", attributes |-> "", type |-> "counter"],
      [id |-> 5, name |-> "h", attributes |-> "", type |-> "histogram"]>>

\* the stored points (time, value) of the two series of g
GaugePoints1 == <<<<0, 2>>, <<10, 4>>, <<20, 1>>, <<30, 3>>>>
GaugePoints2 == <<<<10, 5>>, <<20, 2>>>>

\* the metrics_values rows of a descriptor, by time
ValueRows(id) ==
    CASE id = 1 -> GaugePoints1
      [] id = 2 -> GaugePoints2
      [] id = 3 -> CounterRows("c")
      [] id = 4 -> CounterRows("s")
      [] OTHER -> <<>>

\* _get_metric_type (db.py lines 256-274): the type of a descriptor with the
\* name, ValueError when there is none; every stored name has one type
Described(metric_name) == SelectSeq(ApiInfo, LAMBDA i : i.name = metric_name)
GetMetricType(metric_name) ==
    IF Described(metric_name) = <<>> THEN "ValueError"
    ELSE Described(metric_name)[1].type

\* time_bucket(step, time): the start of the step-wide bucket holding time,
\* buckets being aligned on multiples of step
TimeBucket(step_seconds, t) == t - (t % step_seconds)

RECURSIVE SumValues(_)
SumValues(pts) == IF pts = <<>> THEN 0 ELSE Head(pts)[2] + SumValues(Tail(pts))

\* AVG(v.value) (db.py line 350) and last(v.value, v.time) (line 292) over the
\* rows of one group, which are in time order
AvgValue(pts) == Rat(SumValues(pts), Len(pts))
LastValue(pts) == Rat(pts[Len(pts)][2], 1)

\* the rows of the GROUP BY i.id, ..., bucket with the given bucket (db.py
\* lines 286-302 and 344-360), one per descriptor of the name and type that
\* has a value with start_ts <= time <= end_ts in the bucket
GroupsAt(type, metric_name, start_ts, end_ts, step_seconds, bucket) ==
    LET infos == SelectSeq(ApiInfo,
                           LAMBDA i : i.name = metric_name /\ i.type = type)
    IN Concat([k \in 1..Len(infos) |->
          LET pts == SelectSeq(ValueRows(infos[k].id),
                         LAMBDA p : /\ start_ts <= p[1] /\ p[1] <= end_ts
                                    /\ TimeBucket(step_seconds, p[1]) = bucket)
          IN IF pts = <<>> THEN <<>>
             ELSE <<[attrs |-> infos[k].attributes, t |-> bucket,
                     value |-> IF type = "gauge" THEN AvgValue(pts)
                               ELSE LastValue(pts)]>>])

\* ... ORDER BY bucket ASC: the groups of the buckets from that of start_ts on
RECURSIVE FetchAggregated(_, _, _, _, _, _)
FetchAggregated(type, metric_name, start_ts, end_ts, step_seconds, bucket) ==
    IF bucket > end_ts THEN <<>>
    ELSE GroupsAt(type, metric_name, start_ts, end_ts, step_seconds, bucket)
         \o FetchAggregated(type, metric_name, start_ts, end_ts, step_seconds,
                            bucket + step_seconds)

\* _fetch_gauge_aggregated (db.py lines 323-381)
FetchGaugeAggregated(metric_name, start_ts, end_ts, step_seconds) ==
    FetchAggregated("gauge", metric_name, start_ts, end_ts, step_seconds,
                    TimeBucket(step_seconds, start_ts))

\* _fetch_counter_raw_aggregated (db.py lines 276-321)
FetchCounterRawAggregated(metric_name, start_ts, end_ts, step_seconds) ==
    FetchAggregated("counter", metric_name, start_ts, end_ts, step_seconds,
                    TimeBucket(step_seconds, start_ts))

\* fetch_timeseries_for_range (db.py lines 229-254)
FetchTimeseriesForRange(metric_name, start_ts, end_ts, step_seconds, function) ==
    IF function \in {"rate", "increase"}
    THEN Returned(FetchCounterRateOrIncrease(metric_name, start_ts, end_ts,
                                             step_seconds, function), 1)
    ELSE LET metric_type == GetMetricType(metric_name) IN
         IF metric_type = "ValueError" THEN Raised("ValueError")
         ELSE IF metric_type = "gauge"
         THEN Returned(FetchGaugeAggregated(metric_name, start_ts, end_ts,
                                            step_seconds), 2)
         ELSE IF metric_type = "counter"
         THEN Returned(FetchCounterRawAggregated(metric_name, start_ts, end_ts,
                                                 step_seconds), 2)
         ELSE Returned(<<>>, 1)

\* _generate_query_range_response (prometheus.py lines 225-255): the rows
\* grouped by label set, each group with its (timestamp, value) pairs in the
\* order of the rows
GenerateQueryRangeResponse(series) ==
    {[metric |-> a,
      values |-> LET own == SelectSeq(series, LAMBDA r : r.attrs = a)
                 IN [i \in 1..Len(own) |-> <<own[i].t, own[i].value>>]] :
        a \in {series[i].attrs : i \in 1..Len(series)}}

\* (variant: fetch_timeseries_for_range also takes lookback_seconds)
FetchParamsWithLookback ==
    {"metric_name", "labels", "start_ts", "end_ts", "step_seconds", "function",
     "lookback_seconds"}

\* the parameters of fetch_timeseries_for_range (db.py lines 229-237)
FetchParams ==
    {"metric_name", "labels", "start_ts", "end_ts", "step_seconds", "function"}

\* the keyword arguments handle_range_query passes (prometheus.py lines
\* 203-211)
RangeCallKeywords ==
    {"metric_name", "labels", "start_ts", "end_ts", "step_seconds", "function",
     "lookback_seconds"}

\* a call with a keyword the function does not have raises TypeError before
\* the body runs
CallRaisesTypeError(keywords, params) == keywords \ params # {}

\* PrometheusService.handle_range_query (prometheus.py lines 135-223) for a
\* query without aggregation; calls counts the store queries made
HandleRangeQuery(query, start, end, step) ==
    LET parsed == Parse(query) IN
    IF parsed.error THEN Raised("ValueError")
    ELSE IF IsScalar(parsed) THEN Raised("ValueError")
    ELSE IF parsed.metric_name = Some("up")
    THEN Returned(UpSeries(start, end, step), 0)
    ELSE IF parsed.function \in {"rate", "increase"}
            /\ GetLookbackSeconds(parsed) <= 0
    THEN Raised("ValueError")
    ELSE IF CallRaisesTypeError(RangeCallKeywords, FetchParams)
    THEN Raised("TypeError")
    ELSE FetchTimeseriesForRange(Get(parsed.metric_name), start, end, step,
                                 parsed.function)

\* query_range (router.py lines 81-95): a ValueError is answered 400, any
\* other exception 500
StatusOf(result) ==
    IF result.exc = "none" THEN 200
    ELSE IF result.exc = "ValueError" THEN 400
    ELSE 500

Times == {10 * i : i \in 0..MaxTick}
Steps == {10, 30}

InitQuery ==
    /\ qreq \in {[kind |-> "range", query |-> q, start |-> a, end |-> b, step |-> st] :
                    q \in Queries, a \in Times, b \in Times, st \in Steps}
    /\ qresp = NoQuery /\ qpc = "idle" /\ qcalls = 0

\* the same requests with a plain selector
InitRaw ==
    /\ qreq \in {[kind |-> "range", query |-> q, start |-> a, end |-> b, step |-> st] :
                    q \in RawQueries, a \in Times, b \in Times, st \in Steps}
    /\ qresp = NoQuery /\ qpc = "idle" /\ qcalls = 0

\* GET or POST /api/v1/query_range with all four parameters
QueryRange ==
    /\ qpc = "idle" /\ qreq.kind = "range"
    /\ LET result == HandleRangeQuery(qreq.query, qreq.start, qreq.end, qreq.step)
       IN /\ qresp' = [kind |-> "range", status |-> StatusOf(result),
                       exc |-> result.exc, samples |-> result.samples,
                       result |-> GenerateQueryRangeResponse(result.samples)]
          /\ qcalls' = qcalls + result.calls
    /\ qpc' = "done"
    /\ UNCHANGED qreq
    /\ UNCHANGED <<colVars, dbVars, upVars, aggVars, convVars, grpVars>>

\* ------------------------------------------------------------------------
\* Query API: text exposition of histograms (src/api/prometheus_formatter.py)
\* ------------------------------------------------------------------------
\* length of bucket_counts, and the largest count field
MaxBuckets == 3
MaxCount == 4

\* the DBMetric fields the histogram formatter reads (schemas.py lines 47-58)
DBHistogram(bucket_counts, explicit_bounds, sum, count) ==
    [kind |-> "histogram", bucket_counts |-> bucket_counts,
     explicit_bounds |-> explicit_bounds, sum |-> sum, count |-> count]

\* zip(explicit_bounds, bucket_counts, strict=False): as many pairs as the
\* shorter list has
ZipLen(explicit_bounds, bucket_counts) ==
    IF Len(explicit_bounds) <= Len(bucket_counts)
    THEN Len(explicit_bounds) ELSE Len(bucket_counts)

\* (variant: the bucket's own count is emitted)
CumulativePlain(bucket_counts, n) == IF n = 0 THEN 0 ELSE bucket_counts[n]

\* cumulative after n passes of `cumulative += count` (lines 39-43)
RECURSIVE Cumulative(_, _)
Cumulative(bucket_counts, n) ==
    IF n = 0 THEN 0 ELSE Cumulative(bucket_counts, n - 1) + bucket_counts[n]

\* _format_histogram_metric (lines 26-50): the lines after HELP and TYPE
FormatHistogramMetric(metric) ==
    IF \/ metric.bucket_counts = None \/ metric.explicit_bounds = None
       \/ metric.sum = None \/ metric.count = None
    THEN <<>>
    ELSE LET bounds == Get(metric.explicit_bounds)
             counts == Get(metric.bucket_counts)
         IN [i \in 1..ZipLen(bounds, counts) |->
                [series |-> "_bucket", le |-> bounds[i],
                 value |-> Cumulative(counts, i)]]
            \o <<[series |-> "_bucket", le |-> "+Inf", value |-> Get(metric.count)],
                 [series |-> "_sum", le |-> "", value |-> Get(metric.sum)],
                 [series |-> "_count", le |-> "", value |-> Get(metric.count)]>>

\* histogram rows as the store returns them: any bounds, any non-negative
\* bucket counts, any count, in lists of any length; or a missing field
DBHistograms ==
    {DBHistogram(Some(bc), Some(eb), Some(1), Some(c)) :
        bc \in SeqsUpTo(0..MaxValue, MaxBuckets),
        eb \in SeqsUpTo(1..2, MaxBuckets - 1),
        c \in 0..MaxCount}
    \cup {DBHistogram(None, Some(<<1>>), Some(1), Some(1)),
          DBHistogram(Some(<<1, 0>>), Some(<<1>>), Some(1), None)}

InitExpo ==
    /\ qreq \in DBHistograms
    /\ qresp = NoQuery /\ qpc = "idle" /\ qcalls = 0

\* format_metrics on one histogram metric (lines 58-59)
FormatHistogram ==
    /\ qpc = "idle" /\ qreq.kind = "histogram"
    /\ qresp' = [kind |-> "exposition", lines |-> FormatHistogramMetric(qreq)]
    /\ qpc' = "done"
    /\ UNCHANGED <<qreq, qcalls>>
    /\ UNCHANGED <<colVars, dbVars, upVars, aggVars, convVars, grpVars>>

\* ------------------------------------------------------------------------
\* Query API: the expression pattern of the parser (src/api/promql_parser.py)
\* ------------------------------------------------------------------------
\* number of closing parentheses written after the selector
MaxClose == 2

\* A query as its tokens: identifiers, the punctuation of the pattern, runs
\* of whitespace, and durations such as 5m
Tok(type, text, num) == [type |-> type, text |-> text, num |-> num]
Id(text) == Tok("id", text, 0)
Sym(c) == Tok(c, c, 0)
Ws == Tok("ws", " ", 0)
Dur(value, unit) == Tok("dur", unit, value)
EndTok == Tok("end", "", 0)

At(tokens, p) == IF p >= 1 /\ p <= Len(tokens) THEN tokens[p] ELSE EndTok

\* the position after a run of tokens of one type (\s*, \)*)
RECURSIVE SkipType(_, _, _)
SkipType(tokens, p, type) ==
    IF At(tokens, p).type = type THEN SkipType(tokens, p + 1, type) ELSE p

\* the first position from p on that holds a token of the type, or the end
RECURSIVE FindType(_, _, _)
FindType(tokens, p, type) ==
    IF p > Len(tokens) \/ tokens[p].type = type THEN p
    ELSE FindType(tokens, p + 1, type)

AggOps == {"sum", "avg", "min", "max", "count"}
FuncNames == {"rate", "increase"}

\* an optional group `(?:(names)\s*\(\s*)?` (lines 76-82)
OptionalCall(tokens, p, names) ==
    LET q == SkipType(tokens, p + 1, "ws") IN
    IF At(tokens, p).type = "id" /\ At(tokens, p).text \in names
       /\ At(tokens, q).type = "("
    THEN [name |-> Some(At(tokens, p).text), next |-> SkipType(tokens, q + 1, "ws")]
    ELSE [name |-> None, next |-> p]

\* the optional range vector `\[\s*(range)\s*\]` (lines 86-88)
OptionalRange(tokens, p) ==
    LET q1 == SkipType(tokens, p + 1, "ws")
        q2 == SkipType(tokens, q1 + 1, "ws")
    IN IF At(tokens, p).type = "[" /\ At(tokens, q1).type = "dur"
          /\ At(tokens, q2).type = "]"
       THEN [range |-> Some(At(tokens, q1)), next |-> q2 + 1]
       ELSE [range |-> None, next |-> p]

\* `\s*\)*` (line 90): any number of closing parentheses; without one the
\* whitespace is left to what follows
AfterClosers(tokens, p) ==
    LET a == SkipType(tokens, p, "ws")
        b == SkipType(tokens, a, ")")
    IN IF b > a THEN b ELSE p

\* the optional clause `\s+by\s*\(\s*(by)\s*\)` (lines 92-94)
OptionalBy(tokens, p) ==
    LET d == SkipType(tokens, p, "ws")
        e == SkipType(tokens, d + 1, "ws")
        f == FindType(tokens, e + 1, ")")
    IN IF d > p /\ At(tokens, d) = Id("by") /\ At(tokens, e).type = "("
          /\ f <= Len(tokens)
       THEN [by |-> Some(SubSeq(tokens, e + 1, f - 1)), next |-> f + 1]
       ELSE [by |-> None, next |-> p]

NoMatch == [matched |-> FALSE]

\* _FULL_EXPR_PATTERN.match(query) (lines 72-98) for a selector without
\* label matchers: the groups, or no match
MatchFullExpr(tokens) ==
    LET agg == OptionalCall(tokens, SkipType(tokens, 1, "ws"), AggOps)
        func == OptionalCall(tokens, agg.next, FuncNames)
        metric == At(tokens, func.next)
        rng == OptionalRange(tokens, func.next + 1)
        by == OptionalBy(tokens, AfterClosers(tokens, rng.next))
    IN IF metric.type = "id"
          /\ SkipType(tokens, by.next, "ws") = Len(tokens) + 1
       THEN [matched |-> TRUE, agg_op |-> agg.name, func |-> func.name,
             metric |-> metric.text, range |-> rng.range, by |-> by.by]
       ELSE NoMatch

FullParsedQuery(metric_name, function, range, aggregation, by_labels, scalar_value) ==
    [error |-> FALSE, metric_name |-> metric_name, function |-> function,
     range |-> range, aggregation |-> aggregation, by_labels |-> by_labels,
     scalar_value |-> scalar_value]

\* _parse_range (lines 239-252) on a whole number and a unit
ParseRange(dur) == [value |-> dur.num, unit |-> dur.text]

\* groups['by'].split(','), stripped, the empty parts dropped (line 156):
\* the label names between the commas, in order
ByLabels(content) ==
    LET ids == SelectSeq(content, LAMBDA t : t.type = "id")
    IN [i \in 1..Len(ids) |-> ids[i].text]

\* _build_parsed_query (lines 144-173)
BuildParsedQuery(groups) ==
    FullParsedQuery(
        Some(groups.metric),
        IF groups.func # None THEN Get(groups.func) ELSE "raw",
        IF groups.range # None THEN Some(ParseRange(Get(groups.range))) ELSE None,
        groups.agg_op,
        IF groups.by # None THEN ByLabels(Get(groups.by)) ELSE <<>>,
        None)

\* PromQLParser.parse (lines 117-133) on a tokenised query; a query that
\* does not match the pattern and is neither a bare name nor a selector in
\* braces ends in _parse_fallback's ParseError
ParseTokens(tokens) ==
    IF tokens = <<>> THEN ParseError
    ELSE IF tokens = <<Id("up")>>
    THEN FullParsedQuery(None, "raw", None, None, <<>>, Some("1"))
    ELSE IF MatchFullExpr(tokens).matched
    THEN BuildParsedQuery(MatchFullExpr(tokens))
    ELSE ParseError

\* (variant: the function is left out of the name)
GetEffectiveMetricNameNoFunction(parsed) ==
    LET base == IF parsed.metric_name # None THEN Get(parsed.metric_name)
                ELSE "scalar"
    IN IF parsed.aggregation # None
       THEN Get(parsed.aggregation) \o "(" \o base \o ")"
       ELSE base

\* ParsedQuery.get_effective_metric_name (lines 31-37)
GetEffectiveMetricName(parsed) ==
    LET base == IF parsed.metric_name # None THEN Get(parsed.metric_name)
                ELSE "scalar"
        named == IF parsed.function # "raw"
                 THEN parsed.function \o "(" \o base \o ")"
                 ELSE base
    IN IF parsed.aggregation # None
       THEN Get(parsed.aggregation) \o "(" \o named \o ")"
       ELSE named

\* the text of an expression: agg(func(name[range])) by (l1,l2) with each
\* part optional and nclose closing parentheses
RECURSIVE Repeat(_, _)
Repeat(tok, n) == IF n = 0 THEN <<>> ELSE <<tok>> \o Repeat(tok, n - 1)

RECURSIVE CommaSeparated(_)
CommaSeparated(labels) ==
    IF labels = <<>> THEN <<>>
    ELSE IF Len(labels) = 1 THEN <<Id(labels[1])>>
    ELSE <<Id(labels[1]), Sym(",")>> \o CommaSeparated(Tail(labels))

ExprTokens(agg, func, name, range, nclose, by) ==
    (IF agg # None THEN <<Id(Get(agg)), Sym("(")>> ELSE <<>>)
    \o (IF func # None THEN <<Id(Get(func)), Sym("(")>> ELSE <<>>)
    \o <<Id(name)>>
    \o (IF range # None
        THEN <<Sym("["), Dur(Get(range).value, Get(range).unit), Sym("]")>>
        ELSE <<>>)
    \o Repeat(Sym(")"), nclose)
    \o (IF by # None
        THEN <<Ws, Id("by"), Ws, Sym("(")>> \o CommaSeparated(Get(by)) \o <<Sym(")")>>
        ELSE <<>>)

Expressions ==
    {[kind |-> "parse", agg |-> agg, func |-> func, name |-> name,
      range |-> range, nclose |-> nclose, by |-> by,
      tokens |-> ExprTokens(agg, func, name, range, nclose, by)] :
        agg \in {None, Some("sum"), Some("avg")},
        func \in {None, Some("rate"), Some("increase")},
        name \in {"x", "rate"},
        range \in {None, Some([value |-> 5, unit |-> "m"]),
                   Some([value |-> 30, unit |-> "s"])},
        nclose \in 0..MaxClose,
        by \in {None, Some(<<"a", "b">>), Some(<<"b", "a">>), Some(<<"a">>)}}

InitParse ==
    /\ qreq \in Expressions
    /\ qresp = NoQuery /\ qpc = "idle" /\ qcalls = 0

\* parser.parse(query), and the effective name of what it returns
ParseQuery ==
    /\ qpc = "idle" /\ qreq.kind = "parse"
    /\ LET parsed == ParseTokens(qreq.tokens) IN
       qresp' = [kind |-> "parsed", parsed |-> parsed,
                 effective_name |-> IF parsed.error THEN ""
                                    ELSE GetEffectiveMetricName(parsed)]
    /\ qpc' = "done"
    /\ UNCHANGED <<qreq, qcalls>>
    /\ UNCHANGED <<colVars, dbVars, upVars, aggVars, convVars, grpVars>>

\* ------------------------------------------------------------------------
\* Two aggregator instances of one consumer group in pending recovery
\* (src/aggregator/redis_stream_client.py, claim_pending_messages)
\* ------------------------------------------------------------------------
GroupConsumers == {1, 2}

\* the entries were delivered to an instance that is gone (consumer 0)
InitGroup ==
    /\ gpel \in [1..MaxEntries ->
                   {[consumer |-> 0, idle |-> i] : i \in 0..REDIS_PENDING_IDLE_MS}]
    /\ gpc = [c \in GroupConsumers |-> "idle"]
    /\ gids = [c \in GroupConsumers |-> <<>>]
    /\ gclaimed = [c \in GroupConsumers |-> <<>>]
    /\ gtakers = [e \in 1..MaxEntries |-> {}]

\* the worker of instance c calls claim_pending_messages (worker.py line 59)
GroupCall(c) ==
    /\ gpc[c] = "idle"
    /\ gpc' = [gpc EXCEPT ![c] = "xpending"]
    /\ gids' = [gids EXCEPT ![c] = <<>>]
    /\ gclaimed' = [gclaimed EXCEPT ![c] = <<>>]
    /\ UNCHANGED <<gpel, gtakers>>
    /\ UNCHANGED <<colVars, dbVars, upVars, aggVars, convVars, apiVars>>

\* XPENDING ... IDLE min_idle - + count returns for instance c (lines
\* 144-156); an error ends the generator (line 185)
GroupXPendingRange(c, outcome) ==
    /\ gpc[c] = "xpending"
    /\ outcome \in {"ok", "error"}
    /\ LET ids == FirstN(SortedSeq(IdlePending(gpel)), REDIS_BATCH_SIZE) IN
       IF outcome = "ok" /\ ids # <<>>
       THEN /\ gids' = [gids EXCEPT ![c] = ids]
            /\ gpc' = [gpc EXCEPT ![c] = "xclaim"]
       ELSE /\ gids' = gids
            /\ gpc' = [gpc EXCEPT ![c] = "idle"]
    /\ UNCHANGED <<gpel, gclaimed, gtakers>>
    /\ UNCHANGED <<colVars, dbVars, upVars, aggVars, convVars, apiVars>>

\* XCLAIM ... consumername min_idle_time message_ids returns for instance c
\* (lines 158-167): one atomic command of the stream server
GroupXClaim(c, outcome) ==
    /\ gpc[c] = "xclaim"
    /\ outcome \in {"ok", "error"}
    /\ IF outcome = "ok"
       THEN LET claimed == ClaimedOf(gpel, gids[c]) IN
            /\ gpel' = [e \in DOMAIN gpel |->
                          IF InSeq(e, claimed)
                          THEN [consumer |-> c, idle |-> 0]
                          ELSE gpel[e]]
            /\ gclaimed' = [gclaimed EXCEPT ![c] = claimed]
            /\ gtakers' = [e \in DOMAIN gtakers |->
                             IF InSeq(e, claimed) THEN gtakers[e] \cup {c}
                             ELSE gtakers[e]]
            /\ gpc' = [gpc EXCEPT ![c] = IF claimed = <<>> THEN "idle" ELSE "yield"]
            /\ gids' = gids
       ELSE /\ gpc' = [gpc EXCEPT ![c] = "idle"]
            /\ gids' = [gids EXCEPT ![c] = <<>>]
            /\ UNCHANGED <<gpel, gclaimed, gtakers>>
    /\ UNCHANGED <<colVars, dbVars, upVars, aggVars, convVars, apiVars>>

\* the generator yields the next claimed entry to the worker of instance c,
\* which inserts it and acks it, or logs the failure (worker.py lines 62-74)
GroupYield(c, acked) ==
    /\ gpc[c] = "yield"
    /\ gclaimed[c] # <<>>
    /\ gpel' = IF acked
               THEN [e \in DOMAIN gpel \ {Head(gclaimed[c])} |-> gpel[e]]
               ELSE gpel
    /\ gclaimed' = [gclaimed EXCEPT ![c] = Tail(@)]
    /\ gpc' = [gpc EXCEPT ![c] = IF Tail(gclaimed[c]) = <<>> THEN "idle" ELSE "yield"]
    /\ UNCHANGED <<gids, gtakers>>
    /\ UNCHANGED <<colVars, dbVars, upVars, aggVars, convVars, apiVars>>

\* REDIS_PENDING_IDLE_MS elapses for the group's pending entries
GroupTick ==
    /\ \E e \in DOMAIN gpel : gpel[e].idle < REDIS_PENDING_IDLE_MS
    /\ gpel' = [e \in DOMAIN gpel |->
                  [gpel[e] EXCEPT !.idle = Min(@ + 1, REDIS_PENDING_IDLE_MS)]]
    /\ gtakers' = [e \in DOMAIN gtakers |->
                     IF e \in DOMAIN gpel
                        /\ gpel[e].idle + 1 >= REDIS_PENDING_IDLE_MS
                     THEN {} ELSE gtakers[e]]
    /\ UNCHANGED <<gpc, gids, gclaimed>>
    /\ UNCHANGED <<colVars, dbVars, upVars, aggVars, convVars, apiVars>>

\* ------------------------------------------------------------------------
\* Query API: the store facade called on its own (src/api/db.py)
\* ------------------------------------------------------------------------
InitBuckets ==
    /\ qreq \in {[kind |-> "buckets", metric_name |-> m, start |-> a, end |-> b,
                  step |-> st, function |-> f] :
                    m \in {"c", "s", "none"}, a \in Times, b \in Times,
                    st \in Steps, f \in {"rate", "increase"}}
    /\ qresp = NoQuery /\ qpc = "idle" /\ qcalls = 0

\* await self._fetch_counter_rate_or_increase(...) (db.py lines 383-422)
FetchBuckets ==
    /\ qpc = "idle" /\ qreq.kind = "buckets"
    /\ qresp' = [kind |-> "buckets",
                 samples |-> FetchCounterRateOrIncrease(qreq.metric_name, qreq.start,
                                                         qreq.end, qreq.step,
                                                         qreq.function)]
    /\ qcalls' = qcalls + 1
    /\ qpc' = "done"
    /\ UNCHANGED qreq
    /\ UNCHANGED <<colVars, dbVars, upVars, aggVars, convVars, grpVars>>

\* ------------------------------------------------------------------------
\* Query API: instant queries (src/api/services/prometheus.py,
\* src/api/router.py)
\* ------------------------------------------------------------------------
\* the keyword arguments handle_instant_query passes to
\* fetch_timeseries_for_range (prometheus.py lines 83-91)
InstantCallKeywords ==
    {"metric_name", "labels", "start_ts", "end_ts", "step_seconds", "function",
     "lookback_seconds"}

\* _generate_instant_query_response (prometheus.py lines 112-133) with a
\* timestamp: one item per row of the series, each stamped with the query's
\* time
InstantItems(series, timestamp) ==
    [i \in 1..Len(series) |-> [t |-> timestamp, value |-> series[i].value]]

\* PrometheusService.handle_instant_query (prometheus.py lines 29-98) on the
\* modelled queries, none of which is a plain selector of a stored metric
HandleInstantQuery(query, timestamp) ==
    LET parsed == Parse(query) IN
    IF parsed.error THEN Raised("ValueError")
    ELSE IF IsScalar(parsed)
    THEN Returned(<<[t |-> timestamp, value |-> parsed.scalar_value]>>, 0)
    ELSE IF parsed.metric_name = Some("up")
    THEN Returned(InstantItems(<<[t |-> timestamp, value |-> Rat(1, 1)]>>,
                               timestamp), 0)
    ELSE LET lookback == GetLookbackSeconds(parsed)
             start_ts == timestamp - lookback
         IN IF lookback <= 0 THEN Raised("ValueError")
            ELSE IF CallRaisesTypeError(InstantCallKeywords, FetchParams)
            THEN Raised("TypeError")
            ELSE Returned(InstantItems(
                              FetchCounterRateOrIncrease(Get(parsed.metric_name),
                                                         start_ts, timestamp,
                                                         lookback, parsed.function),
                              timestamp), 1)

\* the query's time, in seconds
InstantTimes == 0..(10 * MaxTick)

InitInstant ==
    /\ qreq \in {[kind |-> "instant", query |-> q, time |-> t] :
                    q \in Queries, t \in InstantTimes}
    /\ qresp = NoQuery /\ qpc = "idle" /\ qcalls = 0

\* GET or POST /api/v1/query with a query and a time (router.py lines
\* 21-50): a ValueError is answered 400, any other exception 500
InstantQuery ==
    /\ qpc = "idle" /\ qreq.kind = "instant"
    /\ LET result == HandleInstantQuery(qreq.query, qreq.time)
       IN /\ qresp' = [kind |-> "instant", status |-> StatusOf(result),
                       exc |-> result.exc, samples |-> result.samples]
          /\ qcalls' = qcalls + result.calls
    /\ qpc' = "done"
    /\ UNCHANGED qreq
    /\ UNCHANGED <<colVars, dbVars, upVars, aggVars, convVars, grpVars>>

\* ------------------------------------------------------------------------
\* Query API: aggregation of the fetched rows (src/api/services/prometheus.py)
\* ------------------------------------------------------------------------
\* rows per call
MaxAggRows == 2

\* a row (name, attrs, value, ts) of the series
AggRow(attrs, value, ts) == [name |-> "m", attrs |-> attrs, value |-> value, ts |-> ts]

\* the label sets {x="a"}, {x="a", y="b"} and {x=""} as dicts
AttrsX == [l \in {"x"} |-> "a"]
AttrsXY == [l \in {"x", "y"} |-> IF l = "x" THEN "a" ELSE "b"]
AttrsEmptyX == [l \in {"x"} |-> ""]

\* the rows a call may hold: all of one metric name, as a fetch returns them
AggRows ==
    {AggRow(a, v, t) : a \in {AttrsX, AttrsXY, AttrsEmptyX}, v \in {1, 3},
                       t \in {0, 10}}

\* the operators, with one the parser does not produce, and the by clauses
AggCallOps == AggOps \cup {"other"}
ByClauses == {<<>>, <<"x">>, <<"__name__", "x", "y">>}

\* key_items (prometheus.py lines 303-309): per by-label the row's name for
\* __name__, else str(attrs.get(lbl, ''))
KeyOf(row, by_labels) ==
    [i \in 1..Len(by_labels) |->
        IF by_labels[i] = "__name__" THEN row.name
        ELSE IF by_labels[i] \in DOMAIN row.attrs THEN row.attrs[by_labels[i]]
        ELSE ""]

\* (variant: the rows are grouped by key alone)
GroupKeyNoTime(row, by_labels) == <<KeyOf(row, by_labels), 0>>

\* grouped[(key, ts)] (line 311)
GroupKey(row, by_labels) == <<KeyOf(row, by_labels), row.ts>>

\* the values appended to one group, in the order of the rows
GroupValues(series, by_labels, gk) ==
    LET own == SelectSeq(series, LAMBDA r : GroupKey(r, by_labels) = gk)
    IN [i \in 1..Len(own) |-> own[i].value]

RECURSIVE SumOf(_)
SumOf(values) == IF values = <<>> THEN 0 ELSE Head(values) + SumOf(Tail(values))
MinOf(values) ==
    CHOOSE v \in {values[i] : i \in 1..Len(values)} :
        \A i \in 1..Len(values) : v <= values[i]
MaxOf(values) ==
    CHOOSE v \in {values[i] : i \in 1..Len(values)} :
        \A i \in 1..Len(values) : v >= values[i]

\* agg_value (lines 315-326) of a group, which holds at least one value
AggValue(op, values) ==
    CASE op = "sum" -> Rat(SumOf(values), 1)
      [] op = "avg" -> Rat(SumOf(values), Len(values))
      [] op = "min" -> Rat(MinOf(values), 1)
      [] op = "max" -> Rat(MaxOf(values), 1)
      [] op = "count" -> Rat(Len(values), 1)
      [] OTHER -> Rat(0, 1)

\* attrs (lines 328-331): the by-labels other than __name__ whose key item
\* is not empty
KeyAttrs(key, by_labels) ==
    LET kept == {i \in 1..Len(by_labels) : by_labels[i] # "__name__" /\ key[i] # ""}
    IN [l \in {by_labels[i] : i \in kept} |->
           key[CHOOSE i \in kept : by_labels[i] = l /\ \A j \in kept :
                                       by_labels[j] = l => j <= i]]

\* _apply_aggregation (lines 294-335): one row per group, in the order in
\* which the groups first appear in the series
ApplyAggregation(series, op, by_labels) ==
    LET first == SelectSeq([i \in 1..Len(series) |-> i],
                     LAMBDA i : \A j \in 1..(i - 1) :
                         GroupKey(series[j], by_labels)
                             # GroupKey(series[i], by_labels))
    IN [k \in 1..Len(first) |->
           LET gk == GroupKey(series[first[k]], by_labels) IN
           [name |-> op, attrs |-> KeyAttrs(gk[1], by_labels),
            value |-> AggValue(op, GroupValues(series, by_labels, gk)),
            ts |-> gk[2]]]

RECURSIVE SeriesUpTo(_)
SeriesUpTo(n) ==
    IF n = 0 THEN {<<>>}
    ELSE SeriesUpTo(n - 1)
         \cup {Append(s, r) : s \in {q \in SeriesUpTo(n - 1) : Len(q) = n - 1},
                              r \in AggRows}

InitAggregation ==
    /\ qreq \in {[kind |-> "aggregation", series |-> s, op |-> op, by_labels |-> by] :
                    s \in SeriesUpTo(MaxAggRows), op \in AggCallOps,
                    by \in ByClauses}
    /\ qresp = NoQuery /\ qpc = "idle" /\ qcalls = 0

\* series = cls._apply_aggregation(series, parsed.aggregation,
\* parsed.by_labels) (lines 215-218), then the matrix of the rows
Aggregate ==
    /\ qpc = "idle" /\ qreq.kind = "aggregation"
    /\ LET rows == ApplyAggregation(qreq.series, qreq.op, qreq.by_labels)
       IN qresp' = [kind |-> "aggregation", rows |-> rows,
                    streams |-> {rows[i].attrs : i \in 1..Len(rows)}]
    /\ qpc' = "done"
    /\ UNCHANGED <<qreq, qcalls>>
    /\ UNCHANGED <<colVars, dbVars, upVars, aggVars, convVars, grpVars>>

\* ------------------------------------------------------------------------
\* Specifications
\* ------------------------------------------------------------------------
IdleCol ==
    /\ xstream = <<>> /\ buffer = <<>> /\ lock = 0 /\ waiters = <<>>
    /\ spc = <<>> /\ sdata = <<>> /\ sent = 0 /\ call = <<>>
    /\ last = NoLast /\ hist = NoHist

\* The collector with one caller of send_message
NextColSeq ==
    \E s \in SeqSenders :
        \/ SendMessageCall(s)
        \/ \E o \in XaddOutcomes : SendToRedis(s, o)

\* The collector with two concurrent callers of send_message; each XADD
\* either appends or raises a connection error without appending
ConcSenders == {1, 2}
ConcOutcomes == {"ok", "conn_error"}

InitColConc ==
    /\ xstream = <<>> /\ buffer = <<>> /\ lock = 0 /\ waiters = <<>>
    /\ spc = [s \in ConcSenders |-> "idle"]
    /\ sdata = [s \in ConcSenders |-> 0]
    /\ sent = 0
    /\ call = [s \in ConcSenders |-> NoCall]
    /\ last = NoLast /\ hist = NoHist

NextColConc ==
    \E s \in ConcSenders :
        \/ SendMessageCall(s)
        \/ \E o \in ConcOutcomes : SendToRedis(s, o)
        \/ Handler(s)

InitSpecColConc == InitColConc /\ InitDb /\ IdleUpsert /\ IdleAgg /\ IdleConv /\ IdleApi /\ IdleGrp

SpecColConc == InitSpecColConc /\ [][NextColConc]_vars

InitSpecCol == InitCol /\ InitDb /\ IdleUpsert /\ IdleAgg /\ IdleConv /\ IdleApi /\ IdleGrp

SpecCol == InitSpecCol /\ [][NextColSeq]_vars

\* Concurrent descriptor upserts on one store
NextUpsert == \E c \in UpsertCallers : UpsertInsert(c) \/ UpsertSelect(c)

InitSpecUpsert == IdleCol /\ InitUpsert /\ IdleAgg /\ IdleConv /\ IdleApi /\ IdleGrp

SpecUpsert == InitSpecUpsert /\ [][NextUpsert]_vars

\* The aggregator: producers, the worker, time, kills and restarts
NextAgg ==
    \/ WorkerStep
    \/ \E payload \in AllPayloads : XAdd(payload)
    \/ Tick
    \/ Kill
    \/ Restart

InitSpecAgg ==
    /\ IdleCol /\ InitDb /\ IdleUpsert /\ IdleConv /\ IdleApi /\ IdleGrp
    /\ InitAgg(MaxEntries, MaxFaults, AllPayloads, -1)

SpecAgg == InitSpecAgg /\ [][NextAgg]_vars

\* entries that carry a complete metric point
ValidPayloads == {PointPayload(PCounter), PointPayload(PHistogram)}

\* The worker with a store and a stream that accept every operation
WorkerOk ==
    \/ EnsureConsumerGroup("ok")
    \/ ReadMessages("ok")
    \/ InsertMetric("ok")
    \/ Ack("ok")
    \/ XPendingRange("ok")
    \/ XClaim("ok")

\* Crash recovery: the process is killed and started again; the event loop
\* runs the worker, time passes, a killed process is restarted
NextCrash ==
    \/ WorkerOk
    \/ \E payload \in ValidPayloads : XAdd(payload)
    \/ Tick
    \/ Kill
    \/ Restart

InitSpecCrash ==
    /\ IdleCol /\ InitDb /\ IdleUpsert /\ IdleConv /\ IdleApi /\ IdleGrp
    /\ InitAgg(MaxEntries, MaxFaults, ValidPayloads, 0)

SpecCrash ==
    /\ InitSpecCrash
    /\ [][NextCrash]_vars
    /\ WF_vars(WorkerOk)
    /\ WF_vars(Tick)
    /\ WF_vars(Restart)

\* The worker once its consumer group exists; operations may fail while the
\* environment has failures left
WorkerFlow ==
    \/ EnsureConsumerGroup("ok")
    \/ \E o \in {"ok", "error"} : ReadMessages(o)
    \/ \E o \in {"ok", "error_before_upsert", "error_after_upsert"} : InsertMetric(o)
    \/ \E o \in {"ok", "error"} : Ack(o)
    \/ \E o \in {"ok", "error"} : XPendingRange(o)
    \/ \E o \in {"ok", "error"} : XClaim(o)
    \/ Wake

ForgetSome == \E i \in 1..MaxEntries : Forget(i)

\* A running worker under producers that never stop
NextFlow ==
    \/ WorkerFlow
    \/ \E payload \in ValidPayloads : XAdd(payload)
    \/ Tick
    \/ ForgetSome
    \/ Retention

InitSpecFlow ==
    /\ IdleCol /\ InitDb /\ IdleUpsert /\ IdleConv /\ IdleApi /\ IdleGrp
    /\ InitAgg(-1, MaxFaults, ValidPayloads, 0)

SpecFlow ==
    /\ InitSpecFlow
    /\ [][NextFlow]_vars
    /\ WF_vars(WorkerFlow)
    /\ WF_vars(Tick)
    /\ WF_vars(ForgetSome)
    /\ WF_vars(Retention)

\* The aggregator process from start-up to the end of lifespan()
NextLife ==
    \/ WorkerStep
    \/ \E payload \in AllPayloads : XAdd(payload)
    \/ Tick
    \/ Shutdown
    \/ \E o \in {"done", "timeout"} : WaitFor(o)
    \/ \E d, r \in {"ok", "error"} : CloseBoth(d, r)

InitSpecLife ==
    /\ IdleCol /\ InitDb /\ IdleUpsert /\ IdleConv /\ IdleApi /\ IdleGrp
    /\ InitAgg(MaxEntries, MaxFaults, AllPayloads, -1)

SpecLife == InitSpecLife /\ [][NextLife]_vars

\* The worker and a stop() at any moment; the event loop keeps running the
\* worker task
NextStop ==
    \/ WorkerStep
    \/ \E payload \in AllPayloads : XAdd(payload)
    \/ Tick
    \/ Shutdown

InitSpecStop ==
    /\ IdleCol /\ InitDb /\ IdleUpsert /\ IdleConv /\ IdleApi /\ IdleGrp
    /\ InitAgg(MaxEntries, MaxFaults, AllPayloads, -1)

SpecStop == InitSpecStop /\ [][NextStop]_vars /\ WF_vars(WorkerStep)

\* The worker on a stream that carries points failing insert_metric's checks
\* next to a complete one
NextInvalid ==
    \/ WorkerStep
    \/ \E payload \in InvalidPayloads \cup {PointPayload(PCounter)} : XAdd(payload)
    \/ Tick

InitSpecInvalid ==
    /\ IdleCol /\ InitDb /\ IdleUpsert /\ IdleConv /\ IdleApi /\ IdleGrp
    /\ InitAgg(MaxEntries, MaxFaults,
               InvalidPayloads \cup {PointPayload(PCounter)}, -1)

SpecInvalid == InitSpecInvalid /\ [][NextInvalid]_vars

\* The worker on a stream of counter points with distinct values
NextBatch ==
    \/ WorkerStep
    \/ \E payload \in BatchPayloads : XAdd(payload)
    \/ Tick

InitSpecBatch ==
    /\ IdleCol /\ InitDb /\ IdleUpsert /\ IdleConv /\ IdleApi /\ IdleGrp
    /\ InitAgg(MaxEntries, MaxFaults, BatchPayloads, -1)

SpecBatch == InitSpecBatch /\ [][NextBatch]_vars

\* The worker on a stream of points of one identity and different types
NextTypes ==
    \/ WorkerStep
    \/ \E payload \in TypePayloads : XAdd(payload)
    \/ Tick

InitSpecTypes ==
    /\ IdleCol /\ InitDb /\ IdleUpsert /\ IdleConv /\ IdleApi /\ IdleGrp
    /\ InitAgg(MaxEntries, MaxFaults, TypePayloads, -1)

SpecTypes == InitSpecTypes /\ [][NextTypes]_vars

\* Two instances of one consumer group recovering the same pending entries
NextGroup ==
    \/ \E c \in GroupConsumers : GroupCall(c)
    \/ \E c \in GroupConsumers, o \in {"ok", "error"} : GroupXPendingRange(c, o)
    \/ \E c \in GroupConsumers, o \in {"ok", "error"} : GroupXClaim(c, o)
    \/ \E c \in GroupConsumers, a \in BOOLEAN : GroupYield(c, a)
    \/ GroupTick

InitSpecGroup ==
    /\ IdleCol /\ InitDb /\ IdleUpsert /\ IdleAgg /\ IdleConv /\ IdleApi
    /\ InitGroup

SpecGroup == InitSpecGroup /\ [][NextGroup]_vars

\* The decoder applied to a request
NextConv == Convert

InitSpecConv == IdleCol /\ InitDb /\ IdleUpsert /\ IdleAgg /\ InitConv(Requests) /\ IdleApi /\ IdleGrp

SpecConv == InitSpecConv /\ [][NextConv]_vars

\* POST /v1/metrics: one request is converted and its points are sent
NextIngest ==
    \/ Convert
    \/ RouterCall
    \/ \E o \in XaddOutcomes : RouterSendToRedis(o)
    \/ RouterResume

InitSpecIngest == InitCol /\ InitDb /\ IdleUpsert /\ IdleAgg /\ InitConv(RouterRequests) /\ IdleApi /\ IdleGrp

SpecIngest == InitSpecIngest /\ [][NextIngest]_vars

\* The counter functions applied to a sequence of points
NextRate == CalculateIncrease \/ CalculateRate

InitSpecRate == IdleCol /\ InitDb /\ IdleUpsert /\ IdleAgg /\ IdleConv /\ IdleGrp /\ InitRate

SpecRate == InitSpecRate /\ [][NextRate]_vars

\* One range query against the API
NextQuery == QueryRange

InitSpecQuery == IdleCol /\ InitDb /\ IdleUpsert /\ IdleAgg /\ IdleConv /\ IdleGrp /\ InitQuery

SpecQuery == InitSpecQuery /\ [][NextQuery]_vars

\* The exposition of one histogram row
NextExpo == FormatHistogram

InitSpecExpo == IdleCol /\ InitDb /\ IdleUpsert /\ IdleAgg /\ IdleConv /\ IdleGrp /\ InitExpo

SpecExpo == InitSpecExpo /\ [][NextExpo]_vars

\* The parser applied to one expression
NextParse == ParseQuery

InitSpecParse == IdleCol /\ InitDb /\ IdleUpsert /\ IdleAgg /\ IdleConv /\ IdleGrp /\ InitParse

SpecParse == InitSpecParse /\ [][NextParse]_vars

\* One call of _fetch_counter_rate_or_increase
NextBuckets == FetchBuckets

InitSpecBuckets == IdleCol /\ InitDb /\ IdleUpsert /\ IdleAgg /\ IdleConv /\ IdleGrp /\ InitBuckets

SpecBuckets == InitSpecBuckets /\ [][NextBuckets]_vars

\* One instant query
NextInstant == InstantQuery

InitSpecInstant == IdleCol /\ InitDb /\ IdleUpsert /\ IdleAgg /\ IdleConv /\ IdleGrp /\ InitInstant

SpecInstant == InitSpecInstant /\ [][NextInstant]_vars

\* One range query of a plain selector
NextRaw == QueryRange

InitSpecRaw == IdleCol /\ InitDb /\ IdleUpsert /\ IdleAgg /\ IdleConv /\ IdleGrp /\ InitRaw

SpecRaw == InitSpecRaw /\ [][NextRaw]_vars

\* One call of _apply_aggregation
NextAggregation == Aggregate

InitSpecAggregation == IdleCol /\ InitDb /\ IdleUpsert /\ IdleAgg /\ IdleConv /\ IdleGrp /\ InitAggregation

SpecAggregation == InitSpecAggregation /\ [][NextAggregation]_vars

\* ------------------------------------------------------------------------
\* Collector properties (checked under SpecCol)
\* ------------------------------------------------------------------------

\* C5: with calls made one after another, only connection/timeout failures and
\* a buffer that never reached buffer_size, the entries in the stream are in
\* the order of the send_message calls (payload = call number).
C5_FifoAcrossReconnect ==
    (~hist.reached /\ ~hist.other) =>
        \A i, j \in 1..Len(xstream) : i < j => xstream[i] <= xstream[j]

\* C5 witness: two failed calls left two entries buffered (below capacity) and
\* a later call drained both and sent its own entry.
C5_Witness ==
    /\ ~hist.reached /\ ~hist.other
    /\ last.result = "sent"
    /\ Len(last.buf0) >= 2
    /\ Len(xstream) >= 3

C7_FailedEntryBufferedOrDropped ==
    last.error = "conn" =>
        /\ last.result # "raised"
        /\ IF Len(last.bufBefore) < buffer_size
           THEN InSeq(last.failed, last.bufAfter)
           ELSE ~InSeq(last.failed, last.bufAfter)
        /\ IsPrefix(last.bufBefore, last.bufAfter)

\* C7 (amended): after a connection/timeout error send_message returns; the
\* call's own new entry is appended at the tail of the buffer if fewer than
\* buffer_size entries are buffered and is dropped otherwise; a buffered
\* entry whose drain failed stays at the head of the buffer; the entries
\* already buffered are neither removed nor reordered.
C7_NewEntryBufferedOrDropped ==
    last.error = "conn" =>
        /\ last.result \in {"buffered", "dropped"}
        /\ IF Len(last.bufBefore) < buffer_size
           THEN last.bufAfter = Append(last.bufBefore, last.msg)
           ELSE last.bufAfter = last.bufBefore
        /\ last.failed # last.msg =>
              last.bufAfter # <<>> /\ Head(last.bufAfter) = last.failed
        /\ IsPrefix(last.bufBefore, last.bufAfter)

\* C7 witness: the drain of a buffered entry failed while the buffer was full;
\* the new entry was dropped and the buffered entry is still at the head.
C7_Witness ==
    /\ last.error = "conn"
    /\ last.failed # last.msg
    /\ Len(last.bufBefore) = buffer_size
    /\ last.result = "dropped"

\* C8: a call that started with entries in the buffer and whose appends all
\* succeeded ends with the buffer empty and with the previously buffered
\* entries, followed by the new entry, appended to the stream.
C8_BufferedRetriedOnNextSend ==
    (last.result = "sent" /\ last.clean /\ last.buf0 # <<>>) =>
        /\ last.bufAfter = <<>>
        /\ last.strAfter =
              SubSeq(last.strAfter, 1, last.len0) \o last.buf0 \o <<last.msg>>

\* C8 witness: such a call, started with two buffered entries, has finished.
C8_Witness ==
    last.result = "sent" /\ last.clean /\ Len(last.buf0) >= 2

\* ------------------------------------------------------------------------
\* Store properties
\* ------------------------------------------------------------------------

\* C9: concurrently interleaved _get_or_create_metric_id calls with the same
\* identity (name, attributes, COALESCE(explicit_bounds, empty)) return the same
\* id, and exactly one metrics_info row has that identity.
C9_UpsertIdempotent ==
    /\ \A c1, c2 \in DOMAIN upc :
          (upc[c1] = "done" /\ upc[c2] = "done"
              /\ PointIdentity(upoint[c1]) = PointIdentity(upoint[c2]))
          => uret[c1] = uret[c2]
    /\ \A c \in DOMAIN upc :
          upc[c] # "insert" =>
              Cardinality(MatchingRows(metrics_info, upoint[c])) = 1
    /\ \A c \in DOMAIN upc :
          upc[c] = "done" =>
              /\ uret[c] \in MatchingRows(metrics_info, upoint[c])
              /\ metrics_info[uret[c]].id = uret[c]
    /\ \A c \in DOMAIN upc : upc[c] # "raised"

\* C9 witness: all calls are done, three of them had the same identity (one
\* inserted the row, the others took the SELECT branch).
C9_Witness ==
    /\ DOMAIN upc # {}
    /\ \A c \in DOMAIN upc : upc[c] = "done"
    /\ \E c1, c2, c3 \in DOMAIN upc :
          /\ c1 # c2 /\ c2 # c3 /\ c1 # c3
          /\ upoint[c1] # upoint[c2]
          /\ PointIdentity(upoint[c1]) = PointIdentity(upoint[c2])
          /\ PointIdentity(upoint[c2]) = PointIdentity(upoint[c3])

\* ------------------------------------------------------------------------
\* Aggregator properties
\* ------------------------------------------------------------------------
\* the sample rows that reference a descriptor with the identity of point
SamplesOf(point) ==
    LET ids == {metrics_info[k].id : k \in MatchingRows(metrics_info, point)} IN
    [values |-> {i \in 1..Len(metrics_values) : metrics_values[i].metric_id \in ids},
     histograms |-> {i \in 1..Len(metrics_histograms) :
                        metrics_histograms[i].metric_id \in ids}]

HasSample(point) ==
    SamplesOf(point).values # {} \/ SamplesOf(point).histograms # {}

\* entry e carries a metric point
CarriesPoint(e) == e \in 1..Len(stream) /\ ParseMessage(stream[e]) # None
PointOf(e) == Get(ParseMessage(stream[e]))

\* entry e was delivered and is no longer pending
Acked(e) == e \in 1..last_delivered /\ e \notin DOMAIN pel

\* C1: on the read path and on the claim path the worker comes to the ack of
\* an entry carrying a point only after insert_metric returned for it, so each
\* ack the worker issued for such an entry, and each such entry that is acked,
\* has a sample row in metrics_values or metrics_histograms whose descriptor
\* has the point's (name, attributes, explicit_bounds).
C1_AckOnlyAfterInsert ==
    /\ (wpc = "ack" /\ CarriesPoint(cur)) =>
           (cur \notin failed_ins /\ HasSample(PointOf(cur)))
    /\ \A a \in acks : HasSample(PointOf(a.entry))
    /\ \A e \in 1..Len(stream) :
           (Acked(e) /\ CarriesPoint(e)) => HasSample(PointOf(e))

\* C1 witness: the worker has acked one entry on the read path and another
\* one on the claim path.
C1_Witness ==
    \E a, b \in acks :
        /\ a.path = "read" /\ b.path = "claim" /\ a.entry # b.entry
        /\ Acked(a.entry) /\ Acked(b.entry)

\* C2: an entry whose insert_metric raised gets no ack from the worker and is
\* still pending; a claim_pending_messages whose XCLAIM succeeds for a listed,
\* idle entry of that kind yields the same entry with the same payload, now
\* owned by the claiming consumer.
C2_FailedInsertStaysPending ==
    /\ [](\A e \in failed_ins : e \in DOMAIN pel /\ CarriesPoint(e))
    /\ []((wpc = "ack") => (cur \notin failed_ins))
    /\ [][\A e \in failed_ins :
            (/\ wpc = "xclaim" /\ wpc' # "xclaim" /\ redis_open /\ faults' = faults
             /\ InSeq(e, batch) /\ e \in IdlePending(pel))
            => /\ (wpc' = "insert" /\ cur' = e /\ path' = "claim") \/ InSeq(e, batch')
               /\ stream'[e] = stream[e]
               /\ pel'[e] = [consumer |-> consumer, idle |-> 0]]_vars

\* C2 witness: the insert of an entry raised and a later claim yielded it
\* again to the worker.
C2_Witness ==
    /\ wpc = "insert" /\ path = "claim"
    /\ cur \in failed_ins
    /\ pel[cur].consumer = consumer

\* C3 (as claimed): with a worker that keeps running, producers that may keep
\* appending and a store and stream that fail only finitely often, every entry
\* carrying a valid point (mark is one of them) is eventually persisted as a
\* sample row and acked.
C3_AtLeastOnce ==
    (mark > 0) ~> (persisted /\ Acked(mark))

\* claim_pending_messages yields entry e to the worker
Surfaced(e) ==
    /\ wpc = "insert" /\ path = "claim" /\ cur = e
    /\ e \in DOMAIN pel /\ pel[e].consumer = consumer

\* C4: an entry that was pending when the aggregator was killed is, after the
\* restart under a new consumer name, yielded by claim_pending_messages and
\* from some point on has a sample row for its descriptor; a pending entry
\* changes owner only once it has been idle for REDIS_PENDING_IDLE_MS, and
\* then to the claiming consumer.
C4_CrashRecovery ==
    /\ \A e \in 1..MaxEntries :
          (wpc = "dead" /\ e \in orphans /\ e \in DOMAIN pel) ~> Surfaced(e)
    /\ \A e \in 1..MaxEntries :
          (e \in orphans) ~> [](CarriesPoint(e) /\ HasSample(PointOf(e)))
    /\ [][\A e \in DOMAIN pel :
            (e \in DOMAIN pel' /\ pel'[e].consumer # pel[e].consumer)
            => /\ pel[e].idle >= REDIS_PENDING_IDLE_MS
               /\ pel'[e].consumer = consumer]_vars

\* C4 witness: an entry that was pending at a kill was claimed, inserted and
\* acked by the restarted aggregator.
C4_Witness ==
    \E e \in orphans :
        /\ consumer > 1
        /\ Acked(e)
        /\ [entry |-> e, path |-> "claim"] \in acks
        /\ HasSample(PointOf(e))

\* C10 (as claimed): when the lifespan exit is over, whatever the outcome of
\* the worker task, close was called on both the database pool and the stream
\* client and the exit raised nothing.
C10_ShutdownClosesBoth ==
    lpc \in {"done", "raised"} =>
        /\ lpc = "done"
        /\ closing.db # "not_called"
        /\ closing.redis # "not_called"

\* C11: once stop() has cleared the flag the worker starts no new iteration
\* (it never enters a read_messages call again, and a claim call starts only
\* out of the read of the iteration in progress), start() ends (it returns,
\* or it raised out of ensure_consumer_group before the loop), and a finished
\* start() stays finished.
C11_StopAtIterationBoundary ==
    /\ [][(~running /\ wpc # "read") => wpc' # "read"]_vars
    /\ [][(~running /\ wpc' = "pending" /\ wpc # "pending")
            => (path = "read" /\ wpc \in {"read", "insert", "ack"})]_vars
    /\ [][(~running /\ TaskDone(wpc)) => wpc' = wpc]_vars
    /\ [][(wpc' = "failed" /\ wpc # "failed") => wpc = "ensure"]_vars
    /\ (~running) ~> (wpc \in {"returned", "failed"})

\* C11 witness: the flag was cleared while entries were still undelivered, and
\* start() returned after the iteration in progress without reading them.
C11_Witness ==
    /\ ~running /\ wpc = "returned"
    /\ last_delivered > 0
    /\ Len(stream) > last_delivered

\* the positions in ids of the entries a generator hands on: entries that
\* parse, and on the claim path entries without data (which it acks itself)
HandedOn(ids, p) ==
    {i \in 1..Len(ids) :
        CarriesPoint(ids[i]) \/ (p = "claim" /\ stream[ids[i]].kind = "empty")}

\* the worker goes on after an entry: to the next entry of ids that is handed
\* on, or, when there is none, to pending recovery or the next iteration
GoesOn(ids, p) ==
    IF HandedOn(ids, p) = {}
    THEN wpc' \in {"pending", "read"}
    ELSE LET i == CHOOSE k \in HandedOn(ids, p) : \A j \in HandedOn(ids, p) : k <= j
         IN /\ wpc' \in {"insert", "ack"}
            /\ cur' = ids[i]
            /\ batch' = SubSeq(ids, i + 1, Len(ids))
            /\ path' = p

\* the worker is done with entry cur: its insert raised, or its ack returned
\* or raised
EntryOver ==
    /\ wpc \in {"insert", "ack"}
    /\ wpc' # "dead"
    /\ <<wpc, cur, batch>>' # <<wpc, cur, batch>>
    /\ ~(wpc = "insert" /\ wpc' = "ack" /\ cur' = cur)

C13_DescriptorTypeNeverChanges ==
    [][/\ Len(metrics_info') >= Len(metrics_info)
       /\ \A i \in 1..Len(metrics_info) :
             /\ metrics_info'[i].type = metrics_info[i].type
             /\ metrics_info'[i].id = metrics_info[i].id
             /\ RowIdentity(metrics_info'[i]) = RowIdentity(metrics_info[i])]_vars

\* C13 witness: two finished calls had the same identity and different types;
\* both got the id of the one row, whose type is that of one of them only.
C13_Witness ==
    \E c1, c2 \in DOMAIN upc :
        /\ upc[c1] = "done" /\ upc[c2] = "done"
        /\ PointIdentity(upoint[c1]) = PointIdentity(upoint[c2])
        /\ upoint[c1].type # upoint[c2].type
        /\ uret[c1] = uret[c2]
        /\ metrics_info[uret[c1]].type = upoint[c1].type

\* ---- OTLP decoder properties ----

\* every metric of a request, in the order of the nested loops
MetricsOf(req) ==
    Concat([r \in 1..Len(req) |->
        Concat([c \in 1..Len(req[r].scope_metrics) |->
                  req[r].scope_metrics[c].metrics])])

\* the one payload branch of a metric, in the order sum, gauge, histogram
ChosenBranch(metric) ==
    IF metric.sum # None THEN [type |-> "counter", data_points |-> Get(metric.sum)]
    ELSE IF metric.gauge # None
    THEN [type |-> "gauge", data_points |-> Get(metric.gauge)]
    ELSE IF metric.histogram # None
    THEN [type |-> "histogram", data_points |-> Get(metric.histogram)]
    ELSE [type |-> "none", data_points |-> <<>>]

\* type and timestamp of the data points the chosen branches hold
ExpectedPoints(req) ==
    LET ms == MetricsOf(req) IN
    Concat([i \in 1..Len(ms) |->
        [j \in 1..Len(ChosenBranch(ms[i]).data_points) |->
            <<ChosenBranch(ms[i]).type,
              ChosenBranch(ms[i]).data_points[j].time_unix_nano>>]])

ExpectedSources(req) ==
    Concat([r \in 1..Len(req) |->
        Concat([c \in 1..Len(req[r].scope_metrics) |->
            LET ms == req[r].scope_metrics[c].metrics IN
            Concat([m \in 1..Len(ms) |->
                [j \in 1..Len(ChosenBranch(ms[m]).data_points) |->
                    [resource |-> AttributesToDict(req[r].resource.attributes),
                     own |-> AttributesToDict(
                                ChosenBranch(ms[m]).data_points[j].attributes)]]])])])

\* C15: every emitted point carries the union of the resource's attributes
\* and the data point's own attributes, and on a key both have the data
\* point's value is kept
C15_DataPointAttributesWin ==
    rpc \in {"converted", "done"} =>
        /\ Len(points) = Len(ExpectedSources(request))
        /\ \A i \in 1..Len(points) :
              LET src == ExpectedSources(request)[i] IN
              /\ DOMAIN points[i].attributes
                    = DOMAIN src.resource \cup DOMAIN src.own
              /\ \A key \in DOMAIN src.own :
                    points[i].attributes[key] = src.own[key]
              /\ \A key \in DOMAIN src.resource \ DOMAIN src.own :
                    points[i].attributes[key] = src.resource[key]

\* ---- ingest_metrics properties ----

\* C16: the request is answered 200 with received = the number of points
\* decoded from it, whether each point was appended to the stream, put in
\* the overflow buffer or dropped
C16_ReceivedCountsEveryPoint ==
    (/\ rpc = "done"
     /\ \A i \in 1..Len(rresults) : rresults[i] \in {"sent", "buffered", "dropped"})
    => /\ response = [status |-> 200,
                      received |-> Len(ConvertOtlpToInternal(request))]
       /\ Len(rresults) = response.received

\* a request answered 200 of whose points some were buffered and one dropped
C16_Witness ==
    /\ rpc = "done"
    /\ response.status = 200
    /\ response.received = Len(points)
    /\ \E i \in 1..Len(rresults) : rresults[i] = "buffered"
    /\ \E i \in 1..Len(rresults) : rresults[i] = "dropped"

\* ---- counter function properties ----

\* the values of a sequence of points
ValuesOf(pts) == [i \in 1..Len(pts) |-> pts[i][2]]

\* sum over i = lo..n of d_i, taken from the first pair on
RECURSIVE SumOfDeltas(_, _)
SumOfDeltas(v, lo) ==
    IF lo > Len(v) THEN 0
    ELSE (IF v[lo] - v[lo - 1] >= 0 THEN v[lo] - v[lo - 1] ELSE v[lo])
         + SumOfDeltas(v, lo + 1)

\* C17: for n >= 2 points the increase is the sum of d_i, with
\* d_i = v[i] - v[i-1] when that is >= 0 and v[i] otherwise; it is
\* v[n-1] - v[0] when no delta is negative; the rate is the same total
\* divided by window_seconds
C17_IncreaseWithResets ==
    (qpc = "done" /\ qreq.kind = "counter" /\ Len(qreq.points) >= 2) =>
        LET v == ValuesOf(qreq.points)
            total == SumOfDeltas(v, 2)
        IN /\ qresp.kind = "increase" => qresp.value = Rat(total, 1)
           /\ qresp.kind = "rate" => qresp.value = Rat(total, qreq.window_seconds)
           /\ (\A i \in 2..Len(v) : v[i] - v[i - 1] >= 0)
                 => qresp.value.num = v[Len(v)] - v[1]

\* the increase of a sequence with a reset between two rises
C17_Witness ==
    /\ qpc = "done" /\ qreq.kind = "counter"
    /\ qresp.kind = "increase"
    /\ ValuesOf(qreq.points) = <<1, 0, 2>>
    /\ qresp.value.num = 2

\* ---- range query properties ----

\* the request has been answered
Answered(query) == qpc = "done" /\ qreq.kind = "range" /\ qreq.query = query

\* C18: with the points (0,0), (10,10), (20,5), (30,15) of c stored, the
\* range query rate(c[30s]) with start = end = 30 and step = 30 returns
\* exactly one sample, of value (10 + 5 + 10)/30
C18_RateOverResetWindow ==
    (/\ Answered("rate(c[30s])")
     /\ qreq.start = 30 /\ qreq.end = 30 /\ qreq.step = 30)
    => /\ qresp.status = 200
       /\ Len(qresp.samples) = 1
       /\ RatEq(qresp.samples[1].value, Rat(10 + 5 + 10, 30))

\* C19: the range query `up` returns one sample of value 1 for every tick
\* start, start + step, ... up to and including end
C19_UpSamplePerTick ==
    Answered("up") =>
        /\ qresp.status = 200
        /\ {qresp.samples[i].t : i \in 1..Len(qresp.samples)}
              = {t \in qreq.start..qreq.end : (t - qreq.start) % qreq.step = 0}
        /\ \A i \in 1..Len(qresp.samples) : RatEq(qresp.samples[i].value, Rat(1, 1))
        /\ \A i, j \in 1..Len(qresp.samples) :
              i < j => qresp.samples[i].t < qresp.samples[j].t

\* C20: a range query of a scalar expression (1, 1+1) raises ValueError and
\* is answered 400, and the store is not queried
C20_ScalarRangeQueryRejected ==
    (Answered("1") \/ Answered("1+1")) =>
        /\ qresp.exc = "ValueError"
        /\ qresp.status = 400
        /\ qresp.samples = <<>>
        /\ qcalls = 0

\* the range query 1+1 over several ticks has been answered 400
C20_Witness ==
    /\ Answered("1+1")
    /\ qreq.start < qreq.end
    /\ qresp.status = 400

\* ---- exposition properties ----

\* the _bucket lines of the answer
BucketLines == SelectSeq(qresp.lines, LAMBDA l : l.series = "_bucket")

\* sum of the bucket counts whose position is at most n
SumUpTo(counts, n) ==
    LET RECURSIVE From(_)
        From(i) == IF i > n THEN 0 ELSE counts[i] + From(i + 1)
    IN From(1)

\* what the claim states of the emitted buckets: one per bound in order and
\* then +Inf; values non-decreasing; each finite bucket the cumulative sum;
\* +Inf equal to count
BucketsAsStated ==
    LET bounds == Get(qreq.explicit_bounds)
        counts == Get(qreq.bucket_counts)
        b == BucketLines
    IN /\ Len(b) = Len(bounds) + 1
       /\ \A i \in 1..Len(bounds) :
             b[i].le = bounds[i] /\ b[i].value = SumUpTo(counts, i)
       /\ \A i, j \in 1..Len(bounds) : i < j => b[i].le < b[j].le
       /\ b[Len(b)].le = "+Inf" /\ b[Len(b)].value = Get(qreq.count)
       /\ \A i \in 1..(Len(b) - 1) : b[i].value <= b[i + 1].value

HistogramDone ==
    /\ qpc = "done" /\ qreq.kind = "histogram"
    /\ qreq.bucket_counts # None /\ qreq.explicit_bounds # None
    /\ qreq.sum # None /\ qreq.count # None
    /\ Len(Get(qreq.bucket_counts)) = Len(Get(qreq.explicit_bounds)) + 1

\* C21 (as stated): for any histogram whose bucket_counts has one more
\* element than explicit_bounds, the _bucket values in ascending bound order
\* ending with +Inf are non-decreasing, each finite bucket is the cumulative
\* sum of bucket_counts up to its bound, and +Inf equals count
C21_BucketsCumulative == HistogramDone => BucketsAsStated

\* C21 (amended): the same, for a histogram whose explicit_bounds are stored
\* in ascending order and whose count is the sum of its bucket_counts
C21_BucketsCumulativeOfConsistent ==
    (/\ HistogramDone
     /\ \A i, j \in 1..Len(Get(qreq.explicit_bounds)) :
           i < j => Get(qreq.explicit_bounds)[i] < Get(qreq.explicit_bounds)[j]
     /\ Get(qreq.count)
           = SumUpTo(Get(qreq.bucket_counts), Len(Get(qreq.bucket_counts))))
    => BucketsAsStated

\* a consistent histogram of two bounds has been formatted
C21_Witness ==
    /\ HistogramDone
    /\ Get(qreq.explicit_bounds) = <<1, 2>>
    /\ Get(qreq.bucket_counts) = <<1, 2, 1>>
    /\ Get(qreq.count) = 4
    /\ BucketLines[2].value = 3

\* ---- parser properties ----

\* the parsed expression is written agg(func(name[range])) by (l1,l2)
FullForm ==
    /\ qpc = "done" /\ qreq.kind = "parse"
    /\ qreq.agg # None /\ qreq.func # None /\ qreq.range # None
    /\ qreq.nclose = 2
    /\ qreq.by # None /\ Len(Get(qreq.by)) = 2

\* C22: parsing agg(func(name[range])) by (l1,l2) yields metric_name = name,
\* function = func, range = the written value and unit, aggregation = agg
\* and by_labels = [l1, l2] in order; the effective name is agg(func(name))
C22_FullExpressionParsed ==
    FullForm =>
        /\ ~qresp.parsed.error
        /\ qresp.parsed.metric_name = Some(qreq.name)
        /\ qresp.parsed.function = Get(qreq.func)
        /\ qresp.parsed.range = qreq.range
        /\ qresp.parsed.aggregation = qreq.agg
        /\ qresp.parsed.by_labels = Get(qreq.by)
        /\ qresp.parsed.scalar_value = None
        /\ qresp.effective_name
              = Get(qreq.agg) \o "(" \o Get(qreq.func) \o "(" \o qreq.name \o "))"

\* sum(rate(x[5m])) by (a,b) has been parsed
C22_Witness ==
    /\ FullForm
    /\ qreq.agg = Some("sum") /\ qreq.func = Some("rate") /\ qreq.name = "x"
    /\ qreq.range = Some([value |-> 5, unit |-> "m"])
    /\ qreq.by = Some(<<"a", "b">>)
    /\ qresp.effective_name = "sum(rate(x))"

\* ---- concurrent collector properties (checked under SpecColConc) ----

\* position of x in a sequence without repetition that holds it
PosIn(q, x) == CHOOSE i \in 1..Len(q) : q[i] = x

Occurrences(q, x) == Cardinality({i \in 1..Len(q) : q[i] = x})

\* the payloads whose send_message call has not returned yet
InFlight == {sdata[s] : s \in {t \in DOMAIN spc : spc[t] # "idle"}}

\* C23: the locked sections exclude one another and, while nothing has been
\* dropped, the entries are in the stream in the order in which their calls
\* first acquired the lock
C23_StreamInAcquisitionOrder ==
    /\ \A s, t \in DOMAIN spc :
          (spc[s] \in {"section", "handler"} /\ spc[t] \in {"section", "handler"})
             => s = t /\ lock = s
    /\ hist.dropped = {} =>
          \A i, j \in 1..Len(xstream) :
             i < j => /\ InSeq(xstream[i], hist.order)
                      /\ InSeq(xstream[j], hist.order)
                      /\ PosIn(hist.order, xstream[i]) < PosIn(hist.order, xstream[j])

\* C24: no payload is in the stream twice, in the buffer twice, or in both;
\* a dropped payload is in neither; and once its call has returned, every
\* accepted payload is in the stream, in the buffer, or dropped
C24_Conservation ==
    \A m \in 1..sent :
        /\ Occurrences(xstream, m) + Occurrences(buffer, m)
              + (IF m \in hist.dropped THEN 1 ELSE 0) <= 1
        /\ m \notin InFlight =>
              Occurrences(xstream, m) + Occurrences(buffer, m)
                 + (IF m \in hist.dropped THEN 1 ELSE 0) = 1

\* all calls have returned; payloads are in the stream and in the buffer, and
\* a payload whose call waited for the lock in its except branch was overtaken
C24_Witness ==
    /\ DOMAIN spc = ConcSenders
    /\ \A s \in DOMAIN spc : spc[s] = "idle"
    /\ sent = MaxSends
    /\ buffer # <<>>
    /\ \E i, j \in 1..Len(xstream) :
          i < j /\ PosIn(hist.order, xstream[i]) > PosIn(hist.order, xstream[j])

\* read_messages returned in this step (it did not raise)
ReadReturned ==
    wpc = "read" /\ wpc' # "read" /\ redis_open /\ faults' = faults

\* the worker's await of insert_metric is over in this step
InsertOver == wpc = "insert" /\ wpc' # "dead" /\ <<wpc, cur>>' # <<wpc, cur>>

\* C25: in an iteration whose read_messages call returned, the worker goes on
\* to claim_pending_messages exactly when none of the entries the read
\* delivered was yielded as a point (a claim is never running in an iteration
\* whose read yielded one); an entry yielded by either path is acked exactly
\* when insert_metric returned for it: then the worker goes to the ack of that
\* entry with its sample row stored, and otherwise it issues no ack and the
\* entry stays pending.
C25_ClaimIffReadYieldedNothing ==
    /\ [][(wpc' = "pending" /\ wpc # "pending")
            => /\ wpc = "read" /\ path' = "claim"
               /\ \A e \in (last_delivered + 1)..last_delivered' : ~CarriesPoint(e)]_vars
    /\ [][ReadReturned
            => IF \A e \in (last_delivered + 1)..last_delivered' : ~CarriesPoint(e)
               THEN wpc' = "pending"
               ELSE wpc' = "insert" /\ path' = "read" /\ processed_new']_vars
    /\ []((wpc \in {"pending", "xclaim"} \/ path = "claim") => ~processed_new)
    /\ [][(path = "read" /\ wpc \in {"insert", "ack"})
            => wpc' \notin {"pending", "xclaim"}]_vars
    /\ [][InsertOver
            => IF cur \notin failed_ins'
               THEN /\ wpc' = "ack" /\ cur' = cur /\ path' = path
                    /\ HasSample(PointOf(cur))'
               ELSE /\ ~(wpc' = "ack" /\ cur' = cur)
                    /\ cur \in DOMAIN pel']_vars
    /\ [][(wpc = "ack" /\ CarriesPoint(cur) /\ wpc' # "dead" /\ faults' = faults
              /\ <<wpc, cur>>' # <<wpc, cur>>)
            => cur \notin DOMAIN pel']_vars

\* C25 witness: a read delivered an entry that does not parse and yielded
\* nothing, and the claim of that iteration yielded a point whose insert
\* returned, so the worker is at its ack.
C25_Witness ==
    /\ wpc = "ack" /\ path = "claim" /\ ~processed_new
    /\ CarriesPoint(cur) /\ HasSample(PointOf(cur))
    /\ \E e \in 1..last_delivered : stream[e].kind = "garbage"

\* a stream operation of the worker raised in this step: XGROUP CREATE,
\* XREADGROUP, XPENDING or XCLAIM
StreamOpRaised ==
    /\ wpc \in {"ensure", "read", "pending", "xclaim"}
    /\ faults' < faults
    /\ wpc' # "dead"

\* C26 (as claimed): after an error of ensure_consumer_group, of the read or
\* of the claim the worker sleeps one second and then retries; start() never
\* ends with an exception, and it returns only after stop() cleared the flag.
C26_StreamErrorsRetried ==
    /\ [][StreamOpRaised => wpc' = "sleep"]_vars
    /\ [](wpc # "failed")
    /\ [](wpc = "returned" => ~running)

\* entry e was delivered and its data does not parse into a metric point
Unparseable(e) == e \in 1..last_delivered /\ stream[e].kind = "garbage"

\* XCLAIM returned in this step with entry e among the claimed ones
Claims(e) ==
    /\ wpc = "xclaim" /\ wpc' \notin {"xclaim", "dead"}
    /\ redis_open /\ faults' = faults
    /\ InSeq(e, ClaimedOf(pel, batch))

\* C27: an entry whose data does not parse is never the entry the worker
\* holds (no generator yields it, so it is neither inserted nor acked) and,
\* once delivered, it is pending in every later state; a claim that takes it
\* over resets its idle time and leaves it pending, again without yielding it.
C27_UnparseableStaysPending ==
    /\ [](cur # 0 => stream[cur].kind # "garbage")
    /\ [](\A e \in 1..Len(stream) : Unparseable(e) => e \in DOMAIN pel)
    /\ [][\A e \in 1..Len(stream) :
            (Unparseable(e) /\ Claims(e))
            => /\ pel'[e] = [consumer |-> consumer, idle |-> 0]
               /\ cur' # e]_vars

\* C27 witness: an unparseable entry was read before a kill, the restarted
\* aggregator claimed it under its new consumer name and went on to the next
\* iteration; the entry is still pending.
C27_Witness ==
    \E e \in 1..Len(stream) :
        /\ Unparseable(e)
        /\ e \in orphans
        /\ consumer > 1
        /\ pel[e].consumer = consumer
        /\ wpc = "read"

\* entry e has no data
NoData(e) == e \in 1..Len(stream) /\ stream[e].kind = "empty"

\* C28: the worker never inserts for an entry without data; it holds such an
\* entry only at the ack claim_pending_messages issues for it. An entry
\* without data leaves the pending list only by that ack, which writes no row.
\* A read that delivers it leaves it pending and unyielded; a claim that takes
\* it over comes to its ack.
C28_EmptyAckedOnlyByClaim ==
    /\ [](wpc = "insert" => stream[cur].kind = "point")
    /\ [](\A e \in 1..Len(stream) :
             (NoData(e) /\ cur = e) => (wpc = "ack" /\ path = "claim"))
    /\ [][\A e \in 1..Len(stream) :
            (NoData(e) /\ e \in DOMAIN pel /\ e \notin DOMAIN pel')
            => /\ wpc = "ack" /\ cur = e /\ path = "claim"
               /\ <<metrics_info, metrics_values, metrics_histograms>>'
                     = <<metrics_info, metrics_values, metrics_histograms>>]_vars
    /\ [][\A e \in 1..Len(stream) :
            (ReadReturned /\ NoData(e) /\ e > last_delivered /\ e <= last_delivered')
            => (e \in DOMAIN pel' /\ cur' # e)]_vars
    /\ [][\A e \in 1..Len(stream) :
            (NoData(e) /\ Claims(e))
            => \/ wpc' = "ack" /\ cur' = e /\ path' = "claim"
               \/ InSeq(e, batch')]_vars
    /\ [][\A e \in 1..Len(stream) :
            (/\ NoData(e) /\ wpc = "ack" /\ cur = e /\ redis_open
             /\ faults' = faults /\ wpc' # "dead" /\ <<wpc, cur>>' # <<wpc, cur>>)
            => e \notin DOMAIN pel']_vars

\* C28 witness: an entry without data was delivered by a read and is no longer
\* pending, while an entry that was read after it is at its insert.
C28_Witness ==
    \E e \in 1..Len(stream) :
        /\ NoData(e) /\ Acked(e)
        /\ wpc = "insert" /\ path = "read" /\ cur > e

\* entry e carries a point that fails insert_metric's checks
Invalid(e) == CarriesPoint(e) /\ RaisesValueError(PointOf(e))

InsertResult(outcome) ==
    InsertMetricOp([info |-> metrics_info, values |-> metrics_values,
                    histograms |-> metrics_histograms],
                   PointOf(cur), pool_open, outcome)

\* C30: insert_metric for a counter or gauge point without value, or a
\* histogram point without sum, count or bucket_counts, always raises and
\* leaves metrics_values and metrics_histograms as they were; when the store
\* itself does not fail the error is the ValueError of the field check, which
\* is raised after the point's descriptor row was looked up or created.
C30_InvalidPointRaises ==
    /\ [][(InsertOver /\ Invalid(cur))
            => /\ cur \in failed_ins'
               /\ metrics_values' = metrics_values
               /\ metrics_histograms' = metrics_histograms
               /\ faults' = faults
                    => /\ InsertResult("ok").error = "ValueError"
                       /\ MatchingRows(metrics_info', PointOf(cur)) # {}]_vars
    /\ [](\A e \in 1..Len(stream) :
             (Invalid(e) /\ wpc = "insert" /\ cur = e)
             => \A o \in {"ok", "error_before_upsert", "error_after_upsert"} :
                   /\ ~InsertResult(o).ok
                   /\ InsertResult(o).db.values = metrics_values
                   /\ InsertResult(o).db.histograms = metrics_histograms)

\* C30 witness: insert_metric raised for a histogram point that has sum and
\* bucket_counts but no count, with no store failure in the behaviour: its
\* descriptor row exists and both sample tables are empty.
C30_Witness ==
    \E e \in 1..Len(stream) :
        /\ Invalid(e) /\ e \in failed_ins
        /\ PointOf(e).type = "histogram" /\ PointOf(e).sum # None
        /\ PointOf(e).count = None
        /\ faults = MaxFaults
        /\ MatchingRows(metrics_info, PointOf(e)) # {}
        /\ metrics_values = <<>> /\ metrics_histograms = <<>>

\* ids of the descriptor rows with the identity of entry e's point
DescriptorIds(info, e) ==
    {info[k].id : k \in MatchingRows(info, PointOf(e))}

\* C31: the descriptor row insert_metric created stays when the call fails
\* afterwards (no row of metrics_info is ever removed or changed); a retry
\* for the same entry finds that row, leaves metrics_info as it is and
\* resolves the row's id; the number of descriptor rows with one entry's
\* identity is never more than one, and is one after every call in which the
\* store itself did not fail.
C31_RetryResolvesSameDescriptor ==
    /\ [](\A e \in 1..Len(stream) :
             CarriesPoint(e) =>
                 Cardinality(MatchingRows(metrics_info, PointOf(e))) <= 1)
    /\ [][IsPrefix(metrics_info, metrics_info')]_vars
    /\ [][(InsertOver /\ faults' = faults)
            => Cardinality(MatchingRows(metrics_info', PointOf(cur))) = 1]_vars
    /\ [](\A e \in 1..Len(stream) :
             (wpc = "insert" /\ cur = e /\ DescriptorIds(metrics_info, e) # {})
             => /\ GetOrCreateMetricId(metrics_info, PointOf(e)).info = metrics_info
                /\ DescriptorIds(metrics_info, e)
                      = {GetOrCreateMetricId(metrics_info, PointOf(e)).id})
    /\ [][(InsertOver /\ DescriptorIds(metrics_info, cur) # {})
            => /\ metrics_info' = metrics_info
               /\ DescriptorIds(metrics_info', cur) = DescriptorIds(metrics_info, cur)]_vars

\* C31 witness: insert_metric failed for an entry after its descriptor row was
\* written, a claim yielded the entry again, the retry is about to run and a
\* sample row of another entry already references the same descriptor.
C31_Witness ==
    \E e \in failed_ins :
        /\ wpc = "insert" /\ path = "claim" /\ cur = e
        /\ Cardinality(DescriptorIds(metrics_info, e)) = 1
        /\ \E i \in 1..Len(metrics_values) :
              metrics_values[i].metric_id \in DescriptorIds(metrics_info, e)

\* the sample row insert_metric writes for the entry the worker holds
SampleOf(e) ==
    LET id == CHOOSE i \in DescriptorIds(metrics_info', e) : TRUE IN
    IF PointOf(e).type = "histogram"
    THEN [table |-> "histograms", row |-> HistogramRow(PointOf(e), id)]
    ELSE [table |-> "values", row |-> ValueRow(PointOf(e), id)]

\* C32: every insert_metric call that returns appends exactly one row to the
\* table of the point's type, also when the table already holds a row with
\* the same time and descriptor id (a redelivered entry); no other step
\* changes the sample tables and no row is removed, so the rows of an entry
\* are as many as its successful inserts.
C32_SamplesNotDeduplicated ==
    /\ [][(InsertOver /\ cur \notin failed_ins')
            => IF SampleOf(cur).table = "values"
               THEN /\ metrics_values' = Append(metrics_values, SampleOf(cur).row)
                    /\ metrics_histograms' = metrics_histograms
               ELSE /\ metrics_histograms'
                         = Append(metrics_histograms, SampleOf(cur).row)
                    /\ metrics_values' = metrics_values]_vars
    /\ [][(~InsertOver \/ cur \in failed_ins')
            => /\ metrics_values' = metrics_values
               /\ metrics_histograms' = metrics_histograms]_vars

\* C32 witness: the stream holds one entry; its insert succeeded twice (the
\* first ack did not happen, a claim delivered the entry again) and both rows,
\* equal in time and descriptor id, are in the table; the entry is acked.
C32_Witness ==
    /\ Len(stream) = 1 /\ CarriesPoint(1) /\ Acked(1)
    /\ [entry |-> 1, path |-> "claim"] \in acks
    /\ Len(metrics_values) = 2
    /\ metrics_values[1].time = metrics_values[2].time
    /\ metrics_values[1].metric_id = metrics_values[2].metric_id

\* the worker starts the insert of another entry of the read in progress
NextInsertStarts ==
    /\ path = "read" /\ path' = "read"
    /\ cur # 0 /\ wpc' = "insert" /\ cur' # cur

\* C33: on the read path the worker holds one entry at a time and the entries
\* still to come all have larger ids; the insert of the next entry starts only
\* when the ack of the current one is over or its insert raised, and the next
\* entry is the next delivered one that parses; while no operation has failed,
\* row i of metrics_values is the row of entry i, so the rows of a successful
\* batch are in entry-id order.
C33_BatchInDeliveryOrder ==
    /\ []((path = "read" /\ cur # 0)
            => /\ wpc \in {"insert", "ack"}
               /\ \A k \in 1..Len(batch) : batch[k] > cur
               /\ \A k \in 1..Len(batch) : k > 1 => batch[k] > batch[k - 1])
    /\ [][NextInsertStarts
            => /\ wpc = "ack" \/ (wpc = "insert" /\ cur \in failed_ins')
               /\ cur' > cur
               /\ \A e \in (cur + 1)..(cur' - 1) : ~CarriesPoint(e)
               /\ \A k \in 1..Len(batch') : batch'[k] > cur']_vars
    /\ [](faults = MaxFaults
            => /\ Len(metrics_values) <= last_delivered
               /\ \A i \in 1..Len(metrics_values) :
                     metrics_values[i].value = Get(PointOf(i).value))

\* C33 witness: one read delivered entries 1 and 2 with different values, no
\* operation failed, entry 1 is acked and entry 2 is at its ack; the two rows
\* are in entry order.
C33_Witness ==
    /\ faults = MaxFaults
    /\ wpc = "ack" /\ path = "read" /\ cur = 2
    /\ Acked(1) /\ [entry |-> 1, path |-> "read"] \in acks
    /\ PointOf(1).value # PointOf(2).value
    /\ Len(metrics_values) = 2
    /\ metrics_values[1].value = Get(PointOf(1).value)
    /\ metrics_values[2].value = Get(PointOf(2).value)

\* the XCLAIM of instance c returned in this step
GroupClaimReturned(c) == gpc[c] = "xclaim" /\ gpc'[c] = "yield"

\* C34: every entry an XCLAIM returns to an instance was idle for
\* REDIS_PENDING_IDLE_MS before the command and is pending under that instance,
\* with idle time 0, after it; between two moments at which an entry has been
\* idle that long at most one instance's XCLAIM takes it, also when both
\* instances listed it with XPENDING before either claimed.
C34_ClaimTransfersOwnership ==
    /\ [][\A c \in GroupConsumers :
            GroupClaimReturned(c)
            => \A k \in 1..Len(gclaimed'[c]) :
                  /\ gpel[gclaimed'[c][k]].idle >= REDIS_PENDING_IDLE_MS
                  /\ gpel'[gclaimed'[c][k]] = [consumer |-> c, idle |-> 0]]_vars
    /\ [](\A e \in DOMAIN gtakers : Cardinality(gtakers[e]) <= 1)
    /\ [](\A c, d \in GroupConsumers :
             (c # d /\ gpc[c] = "xclaim" /\ gpc[d] = "yield")
             => \A k \in 1..Len(gclaimed[d]) :
                   (gclaimed[d][k] \in DOMAIN gpel
                       /\ gpel[gclaimed[d][k]].consumer = d
                       /\ gpel[gclaimed[d][k]].idle < REDIS_PENDING_IDLE_MS)
                   => ~InSeq(gclaimed[d][k], ClaimedOf(gpel, gids[c])))

\* C34 witness: both instances listed the same idle entries before either
\* claimed; the XCLAIM of instance 1 took them all and the XCLAIM of
\* instance 2, run next, returned nothing.
C34_Witness ==
    /\ gids[1] # <<>> /\ gids[1] = gids[2]
    /\ gpc[1] = "yield" /\ gclaimed[1] = gids[1]
    /\ gpc[2] = "idle" /\ gclaimed[2] = <<>>
    /\ \A k \in 1..Len(gids[1]) :
          /\ gtakers[gids[1][k]] = {1}
          /\ gpel[gids[1][k]] = [consumer |-> 1, idle |-> 0]

\* the worker is at an operation on the stream or the store
AtOperation == wpc \in {"ensure", "read", "insert", "ack", "pending", "xclaim"}

\* C35: timescale_db.close() and redis_stream_client.stop() are called only
\* when the worker task is done (it returned, raised, or was cancelled by the
\* timeout), a task that is done reads, inserts and acks nothing more, and
\* both connections are open whenever the worker is at a stream or store
\* operation.
C35_CloseAfterWorkerDone ==
    /\ [](lpc \in {"close", "done"} => TaskDone(wpc))
    /\ [][(closing' # closing \/ redis_open' # redis_open \/ pool_open' # pool_open)
            => (lpc = "close" /\ TaskDone(wpc))]_vars
    /\ [][TaskDone(wpc)
            => /\ UNCHANGED <<wpc, cur, last_delivered, dbVars>>
               /\ DOMAIN pel' = DOMAIN pel]_vars
    /\ [](AtOperation => (redis_open /\ pool_open))

\* C35 witness: the worker held a valid entry at its insert when the timeout
\* cancelled it (the entry is pending, nothing failed and no row was written),
\* and both connections were closed afterwards.
C35_Witness ==
    /\ lpc = "done" /\ closing = [db |-> "ok", redis |-> "ok"]
    /\ ~redis_open /\ ~pool_open
    /\ wpc = "returned" /\ faults = MaxFaults
    /\ \E e \in DOMAIN pel : CarriesPoint(e) /\ ~RaisesValueError(PointOf(e))
    /\ metrics_values = <<>> /\ metrics_histograms = <<>>

\* ---- store facade properties ----

\* the stored points of the request's metric inside [start, end], and those
\* of them inside the window [t, t + step]
Prefetched ==
    SelectSeq(CounterRows(qreq.metric_name),
              LAMBDA p : qreq.start <= p[1] /\ p[1] <= qreq.end)
WindowAt(t) ==
    SelectSeq(Prefetched, LAMBDA p : t <= p[1] /\ p[1] <= t + qreq.step)

\* the bucket starts start, start + step, ... up to end
BucketStarts ==
    {t \in qreq.start..qreq.end : (t - qreq.start) % qreq.step = 0}

\* C36: the result has one sample for every bucket start t = start + k * step
\* <= end whose window [t, t + step] holds a pre-fetched point, in ascending
\* order of t and stamped t, and none for the other buckets; its value is 0
\* when the window holds one point and otherwise the sum of the reset-aware
\* deltas of the window's points, divided by step for rate.
C36_RateBuckets ==
    (qpc = "done" /\ qreq.kind = "buckets") =>
        LET out == qresp.samples IN
        /\ {out[i].t : i \in 1..Len(out)}
              = {t \in BucketStarts : WindowAt(t) # <<>>}
        /\ \A i, j \in 1..Len(out) : i < j => out[i].t < out[j].t
        /\ \A i \in 1..Len(out) :
              LET w == WindowAt(out[i].t)
                  total == IF Len(w) >= 2 THEN SumOfDeltas(ValuesOf(w), 2) ELSE 0
              IN RatEq(out[i].value,
                       IF qreq.function = "rate" /\ Len(w) >= 2
                       THEN Rat(total, qreq.step) ELSE Rat(total, 1))

\* C36 witness: increase over the sparse counter with start 0, end 30 and
\* step 10: the bucket at 0 holds one point (0), the bucket at 10 none
\* (nothing emitted), the buckets at 20 and 30 hold the point at 30 (0 each)
C36_Witness ==
    /\ qpc = "done" /\ qreq.kind = "buckets"
    /\ qreq.metric_name = "s" /\ qreq.function = "increase"
    /\ Len(qresp.samples) = 3
    /\ qresp.samples[1].t = 0 /\ qresp.samples[2].t = 20 /\ qresp.samples[3].t = 30
    /\ \A i \in 1..3 : qresp.samples[i].value.num = 0

\* ---- instant query properties ----

\* the stored points of c inside the window [time - 30, time]
InstantWindow ==
    SelectSeq(CounterRows("c"),
              LAMBDA p : qreq.time - 30 <= p[1] /\ p[1] <= qreq.time)

\* C37: the instant query rate(c[30s]) or increase(c[30s]) at time ts is
\* answered 200 with exactly one item for the series c when the window
\* [ts - 30, ts] holds a point of c (and none otherwise), stamped ts, whose
\* value is that of the single bucket [ts - 30, ts]: 0 for one point, else
\* the sum of the reset-aware deltas, divided by 30 for rate.
C37_InstantRateOneBucket ==
    (/\ qpc = "done" /\ qreq.kind = "instant"
     /\ qreq.query \in {"rate(c[30s])", "increase(c[30s])"})
    => /\ qresp.status = 200
       /\ Len(qresp.samples) = (IF InstantWindow # <<>> THEN 1 ELSE 0)
       /\ \A i \in 1..Len(qresp.samples) :
             LET total == IF Len(InstantWindow) >= 2
                          THEN SumOfDeltas(ValuesOf(InstantWindow), 2) ELSE 0
             IN /\ qresp.samples[i].t = qreq.time
                /\ RatEq(qresp.samples[i].value,
                         IF qreq.query = "rate(c[30s])" /\ Len(InstantWindow) >= 2
                         THEN Rat(total, 30) ELSE Rat(total, 1))

\* ---- plain selector properties ----

\* the values of descriptor id with start <= time <= end that fall into the
\* step-wide bucket starting at b
InBucket(id, b) ==
    SelectSeq(ValueRows(id),
              LAMBDA p : /\ qreq.start <= p[1] /\ p[1] <= qreq.end
                         /\ b <= p[1] /\ p[1] < b + qreq.step)

\* the starts of the buckets of descriptor id that hold a value
BucketsOf(id) ==
    {b \in 0..qreq.end : b % qreq.step = 0 /\ InBucket(id, b) # <<>>}

\* the matrix holds one item per label set of the metric with a value in
\* [start, end], whose values are, by ascending bucket, the average (gauge)
\* or the last value (counter) of each of its non-empty buckets
MatrixOf(ids, average) ==
    /\ {item.metric : item \in qresp.result}
          = {ApiInfo[id].attributes : id \in {i \in ids : BucketsOf(i) # {}}}
    /\ \A item \in qresp.result : \E id \in ids :
          /\ ApiInfo[id].attributes = item.metric
          /\ {item.values[k][1] : k \in 1..Len(item.values)} = BucketsOf(id)
          /\ \A j, k \in 1..Len(item.values) :
                j < k => item.values[j][1] < item.values[k][1]
          /\ \A k \in 1..Len(item.values) :
                LET pts == InBucket(id, item.values[k][1]) IN
                RatEq(item.values[k][2],
                      IF average THEN Rat(SumValues(pts), Len(pts))
                      ELSE Rat(pts[Len(pts)][2], 1))

\* C38: the range query g (a gauge with two label sets) is answered 200 with
\* the per-bucket averages of each label set, and the range query c (a
\* counter) with the last value of each bucket, as a matrix with one item per
\* label set.
C38_RawRangeByType ==
    /\ Answered("g") => (qresp.status = 200 /\ MatrixOf({1, 2}, TRUE))
    /\ Answered("c") => (qresp.status = 200 /\ MatrixOf({3}, FALSE))

\* ---- aggregation properties ----

\* the value of a by-label in a row: the label's value, the empty string when
\* the row does not have the label
LabelOf(row, lbl) ==
    IF lbl = "__name__" THEN row.name
    ELSE IF lbl \in DOMAIN row.attrs THEN row.attrs[lbl] ELSE ""

\* two rows are in the same group: same value of every by-label, same
\* timestamp
SameGroup(r, s) ==
    /\ r.ts = s.ts
    /\ \A i \in 1..Len(qreq.by_labels) :
          LabelOf(r, qreq.by_labels[i]) = LabelOf(s, qreq.by_labels[i])

\* the positions of the input rows in the group of row i
GroupOf(i) ==
    {j \in 1..Len(qreq.series) : SameGroup(qreq.series[i], qreq.series[j])}

\* the output row o is the row of the group of input row i: same timestamp,
\* the group's by-label values as labels (empty ones and the name left out)
RowOfGroup(o, i) ==
    /\ o.ts = qreq.series[i].ts
    /\ \A k \in 1..Len(qreq.by_labels) :
          LET lbl == qreq.by_labels[k] IN
          lbl # "__name__" =>
              IF LabelOf(qreq.series[i], lbl) = "" THEN lbl \notin DOMAIN o.attrs
              ELSE lbl \in DOMAIN o.attrs
                   /\ o.attrs[lbl] = LabelOf(qreq.series[i], lbl)

\* the aggregate of the values at the given positions
Expected(op, idx) ==
    LET vals == {qreq.series[j].value : j \in idx}
        total == SumOf([k \in 1..Len(qreq.series) |->
                           IF k \in idx THEN qreq.series[k].value ELSE 0])
    IN CASE op = "sum" -> Rat(total, 1)
         [] op = "avg" -> Rat(total, Cardinality(idx))
         [] op = "min" -> Rat(CHOOSE v \in vals : \A w \in vals : v <= w, 1)
         [] op = "max" -> Rat(CHOOSE v \in vals : \A w \in vals : v >= w, 1)
         [] op = "count" -> Rat(Cardinality(idx), 1)

\* C39: every input row's group has exactly one output row, every output row
\* is the row of some group, its value is the sum, average, minimum, maximum
\* or count of the group's values, its labels are among the by-labels, and
\* rows of groups with different by-label values carry different label sets
\* (one stream per key).
C39_AggregationGroups ==
    (qpc = "done" /\ qreq.kind = "aggregation") =>
        LET out == qresp.rows IN
        /\ \A i \in 1..Len(qreq.series) :
              Cardinality({k \in 1..Len(out) : RowOfGroup(out[k], i)}) = 1
        /\ \A k \in 1..Len(out) : \E i \in 1..Len(qreq.series) :
              /\ RowOfGroup(out[k], i)
              /\ qreq.op \in AggOps
                    => RatEq(out[k].value, Expected(qreq.op, GroupOf(i)))
        /\ \A k \in 1..Len(out) :
              DOMAIN out[k].attrs \subseteq
                  {qreq.by_labels[n] : n \in 1..Len(qreq.by_labels)}
        /\ \A i, j \in 1..Len(qreq.series) :
              (\E n \in 1..Len(qreq.by_labels) :
                  LabelOf(qreq.series[i], qreq.by_labels[n])
                      # LabelOf(qreq.series[j], qreq.by_labels[n]))
              => \A k, l \in 1..Len(out) :
                    (RowOfGroup(out[k], i) /\ RowOfGroup(out[l], j))
                        => out[k].attrs # out[l].attrs

\* C39 witness: avg by (x) over two rows of the group (x = "a", ts = 0), of
\* values 1 and 3 and of different label sets: one output row, of value 2
\* and with the label x = "a" alone
C39_Witness ==
    /\ qpc = "done" /\ qreq.kind = "aggregation"
    /\ qreq.op = "avg" /\ qreq.by_labels = <<"x">>
    /\ Len(qreq.series) = 2
    /\ qreq.series[1] = AggRow(AttrsX, 1, 0)
    /\ qreq.series[2] = AggRow(AttrsXY, 3, 0)
    /\ Len(qresp.rows) = 1
    /\ RatEq(qresp.rows[1].value, Rat(2, 1))
    /\ qresp.rows[1].attrs = AttrsX

\* ---- sample and descriptor types ----

\* the type of the descriptor the newest row of a sample table references
NewestType(rows, info) == info[rows[Len(rows)].metric_id].type

\* C40: the row a returning insert_metric call appends references a
\* descriptor of the point's type: the metrics_values row of a counter or
\* gauge point a descriptor of that same type, the metrics_histograms row of
\* a histogram point a descriptor of type histogram. (Descriptors never
\* change type, C13, so this is the step of the invariant over all rows.)
C40_SampleTypeMatchesDescriptor ==
    [][(InsertOver /\ cur \notin failed_ins')
         => IF PointOf(cur).type = "histogram"
            THEN NewestType(metrics_histograms', metrics_info') = "histogram"
            ELSE NewestType(metrics_values', metrics_info') = PointOf(cur).type]_vars

====
